---- MODULE Spec2Model ----
(***************************************************************************)
(* MedLens: the extraction normalizer (lib/medgemma), the document store   *)
(* and its derived lab trends (lib/store).                                 *)
(*                                                                         *)
(* JavaScript values are tagged records: t is the kind, the second field   *)
(* the payload.  A string is a sequence of one-character strings, so that  *)
(* parseFloat, String() and toLowerCase() are computed character by        *)
(* character.  Numbers are integers: the input alphabet holds no ".", no   *)
(* exponent and no "Infinity", so every parse yields an integer or NaN;    *)
(* -0 is not told apart from 0 (both are falsy and print as "0").          *)
(***************************************************************************)
EXTENDS Integers, Sequences, FiniteSets, TLC

(***************************************************************************)
(* Bounds of the model.                                                    *)
(***************************************************************************)
\* longest lab value / bound string drawn as input
MaxStrLen == 2
\* how many normalizations follow one another
MaxRuns == 2
\* longest response text drawn piece by piece
MaxTextLen == 4
\* how many documents are added to the store
MaxDocs == 3

VARIABLES
  data,          \* the argument of the last parseExtractionData call
  outcome,       \* what the last call returned or threw
  uuids,         \* how many identifiers uuidv4() has returned
  issued,        \* the ids of the lab results of every record returned so far
  calls,         \* how many calls were made
  clock,         \* the date the clock shows at the call
  reply,         \* the text the vision model answers with
  apiResult,     \* how the request to the vision model ends
  config,        \* the environment: useRealAPI, hfToken, googleKey
  ran,           \* the function of the extraction path that ran last
  documents,     \* the documents of the store, the latest first
  trends,        \* the last call of getLabTrends: what it read and returned
  alerts,        \* the alerts of the store, the latest first
  isProcessing,  \* the processing flag of the store
  timeline,      \* the last call of getTimeline: what it returned
  home,          \* the page: currentView and selectedDocument
  upload,        \* the DocumentUpload component: its instance and its state
  analyses,      \* the calls of processDocument, each with where it stands
  recorder       \* the AudioRecorder, the clock it reads and what it emitted

normVars == <<data, outcome, uuids, issued, calls, clock>>

respVars == <<reply, apiResult, config, ran>>

storeVars == <<documents, trends>>

appVars == <<alerts, isProcessing, timeline, home, upload, analyses, recorder>>

vars == <<normVars, respVars, storeVars, appVars>>

(***************************************************************************)
(* JavaScript values.                                                      *)
(***************************************************************************)
Undef == [t |-> "undefined"]
Null == [t |-> "null"]
NaN == [t |-> "nan"]
Bool(b) == [t |-> "boolean", b |-> b]
Num(n) == [t |-> "number", n |-> n]
Str(s) == [t |-> "string", s |-> s]
Arr(a) == [t |-> "array", a |-> a]
Obj(o) == [t |-> "object", o |-> o]
\* a thrown error: k is the constructor, m the message
Throw(k, m) == [t |-> "throw", k |-> k, m |-> m]

IsThrow(v) == "t" \in DOMAIN v /\ v.t = "throw"

\* const v = x; F(v): x is evaluated once and F is given its value
Value(x, F(_)) == CHOOSE y \in {F(v) : v \in {x}} : TRUE

\* typeof
TypeOf(v) ==
  CASE v.t \in {"number", "nan"} -> "number"
    [] v.t = "string" -> "string"
    [] v.t = "boolean" -> "boolean"
    [] v.t = "undefined" -> "undefined"
    [] OTHER -> "object"

\* ToBoolean: what  x || y  and  x ? a : b  test
Truthy(v) ==
  CASE v.t \in {"undefined", "null", "nan"} -> FALSE
    [] v.t = "boolean" -> v.b
    [] v.t = "number" -> v.n # 0
    [] v.t = "string" -> Len(v.s) > 0
    [] OTHER -> TRUE

\* x || y
Or(x, y) == IF Truthy(x) THEN x ELSE y

\* x.k for a key that no prototype defines: a TypeError on undefined and null,
\* the own property of an object, undefined on everything else
Get(v, k) ==
  CASE v.t \in {"undefined", "null"} -> Throw("TypeError", "Cannot read properties")
    [] v.t = "object" -> IF k \in DOMAIN v.o THEN v.o[k] ELSE Undef
    [] OTHER -> Undef

DigitChars == <<"0", "1", "2", "3", "4", "5", "6", "7", "8", "9">>

IsDigit(c) == \E i \in 1..10 : DigitChars[i] = c

DigitVal(c) == (CHOOSE i \in 1..10 : DigitChars[i] = c) - 1

IsWhite(c) == c \in {" ", "\n"}

RECURSIVE NatToString(_)
\* the decimal digits of a natural number
NatToString(n) ==
  IF n < 10 THEN <<DigitChars[n + 1]>>
  ELSE NatToString(n \div 10) \o <<DigitChars[(n % 10) + 1]>>

\* the characters of a literal
Chars(lit) ==
  CASE lit = "undefined" -> <<"u", "n", "d", "e", "f", "i", "n", "e", "d">>
    [] lit = "null" -> <<"n", "u", "l", "l">>
    [] lit = "true" -> <<"t", "r", "u", "e">>
    [] lit = "false" -> <<"f", "a", "l", "s", "e">>
    [] lit = "NaN" -> <<"N", "a", "N">>
    [] lit = "[object Object]" ->
         <<"[", "o", "b", "j", "e", "c", "t", " ", "O", "b", "j", "e", "c", "t", "]">>

RECURSIVE ToStringChars(_)
RECURSIVE JoinChars(_)
\* Array.prototype.join(","): null and undefined elements print as ""
JoinChars(a) ==
  IF Len(a) = 0 THEN <<>>
  ELSE LET h == IF Head(a).t \in {"null", "undefined"} THEN <<>>
                 ELSE ToStringChars(Head(a))
       IN IF Len(a) = 1 THEN h ELSE h \o <<",">> \o JoinChars(Tail(a))

\* ToString(v), for a v on which it does not throw
ToStringChars(v) ==
  CASE v.t = "undefined" -> Chars("undefined")
    [] v.t = "null" -> Chars("null")
    [] v.t = "nan" -> Chars("NaN")
    [] v.t = "boolean" -> IF v.b THEN Chars("true") ELSE Chars("false")
    [] v.t = "number" ->
         IF v.n < 0 THEN <<"-">> \o NatToString(-v.n) ELSE NatToString(v.n)
    [] v.t = "string" -> v.s
    [] v.t = "array" -> JoinChars(v.a)
    [] OTHER -> Chars("[object Object]")

RECURSIVE ToStringThrows(_)
\* ToString(v) throws a TypeError when v is an object whose own property
\* "toString" shadows Object.prototype.toString with a value that is not callable
\* (every value JSON.parse yields is), or an array holding such an object
ToStringThrows(v) ==
  CASE v.t = "object" -> "toString" \in DOMAIN v.o /\ v.o["toString"] # Undef
    [] v.t = "array" -> \E i \in 1..Len(v.a) : ToStringThrows(v.a[i])
    [] OTHER -> FALSE

\* String(v)
String(v) ==
  IF ToStringThrows(v) THEN Throw("TypeError", "Cannot convert object to primitive value")
  ELSE Str(ToStringChars(v))

RECURSIVE SkipWhite(_)
SkipWhite(s) == IF Len(s) > 0 /\ IsWhite(Head(s)) THEN SkipWhite(Tail(s)) ELSE s

RECURSIVE DigitRun(_)
\* the longest prefix of digits
DigitRun(s) ==
  IF Len(s) > 0 /\ IsDigit(Head(s)) THEN <<Head(s)>> \o DigitRun(Tail(s)) ELSE <<>>

RECURSIVE DigitsValue(_, _)
DigitsValue(ds, acc) ==
  IF Len(ds) = 0 THEN acc ELSE DigitsValue(Tail(ds), 10 * acc + DigitVal(Head(ds)))

\* parseFloat of a string: leading white space is skipped, then the longest
\* prefix  [+-]? digits  is the number; NaN when there is none
ParseFloatChars(s) ==
  LET r == SkipWhite(s)
      signed == Len(r) > 0 /\ Head(r) \in {"+", "-"}
      body == IF signed THEN Tail(r) ELSE r
      ds == DigitRun(body)
  IN IF Len(ds) = 0 THEN NaN
     ELSE IF signed /\ Head(r) = "-" THEN Num(-DigitsValue(ds, 0))
     ELSE Num(DigitsValue(ds, 0))

\* parseFloat(v): ToString(v), then the parse
ParseFloat(v) ==
  IF ToStringThrows(v) THEN Throw("TypeError", "Cannot convert object to primitive value")
  ELSE ParseFloatChars(ToStringChars(v))

\* isNaN of a number
IsNaN(v) == v.t = "nan"

(***************************************************************************)
(* The extraction normalizer: parseExtractionData (lib/medgemma.ts) and    *)
(* the field rules of parseExtractionResponse, which are the same code.    *)
(***************************************************************************)
\* a string literal of the source, as characters
Lit(w) ==
  CASE w = "normal" -> <<"n", "o", "r", "m", "a", "l">>
    [] w = "low" -> <<"l", "o", "w">>
    [] w = "high" -> <<"h", "i", "g", "h">>
    [] w = "critical" -> <<"c", "r", "i", "t", "i", "c", "a", "l">>
    [] w = "unknown" -> <<"u", "n", "k", "n", "o", "w", "n">>
    [] w = "metabolic" -> <<"m", "e", "t", "a", "b", "o", "l", "i", "c">>
    [] w = "lipid" -> <<"l", "i", "p", "i", "d">>
    [] w = "cbc" -> <<"c", "b", "c">>
    [] w = "thyroid" -> <<"t", "h", "y", "r", "o", "i", "d">>
    [] w = "liver" -> <<"l", "i", "v", "e", "r">>
    [] w = "kidney" -> <<"k", "i", "d", "n", "e", "y">>
    [] w = "cardiac" -> <<"c", "a", "r", "d", "i", "a", "c">>
    [] w = "inflammatory" -> <<"i", "n", "f", "l", "a", "m", "m", "a", "t", "o", "r", "y">>
    [] w = "vitamin" -> <<"v", "i", "t", "a", "m", "i", "n">>
    [] w = "hormone" -> <<"h", "o", "r", "m", "o", "n", "e">>
    [] w = "other" -> <<"o", "t", "h", "e", "r">>
    [] w = "lab_report" -> <<"l", "a", "b", "_", "r", "e", "p", "o", "r", "t">>
    [] w = "discharge_summary" ->
         <<"d", "i", "s", "c", "h", "a", "r", "g", "e", "_", "s", "u", "m", "m", "a", "r", "y">>
    [] w = "imaging" -> <<"i", "m", "a", "g", "i", "n", "g">>
    [] w = "prescription" -> <<"p", "r", "e", "s", "c", "r", "i", "p", "t", "i", "o", "n">>
    [] w = "Unknown Test" -> <<"U", "n", "k", "n", "o", "w", "n", " ", "T", "e", "s", "t">>
    [] w = "Medical Document" ->
         <<"M", "e", "d", "i", "c", "a", "l", " ", "D", "o", "c", "u", "m", "e", "n", "t">>
    [] w = "" -> <<>>

StatusWords == {"normal", "low", "high", "critical", "unknown"}

CategoryWords ==
  {"metabolic", "lipid", "cbc", "thyroid", "liver", "kidney", "cardiac",
   "inflammatory", "vitamin", "hormone", "other"}

DocumentTypeWords == {"lab_report", "discharge_summary", "imaging", "prescription", "other"}

\* the valid arrays of the three validate functions
ValidStatus == {Str(Lit(w)) : w \in StatusWords}

ValidCategory == {Str(Lit(w)) : w \in CategoryWords}

ValidDocumentType == {Str(Lit(w)) : w \in DocumentTypeWords}

\* mutants of the validate functions: the value passes unchecked
validateStatusUnchecked(status) == status

\* valid.includes(status) ? status : 'unknown'
validateStatus(status) == IF status \in ValidStatus THEN status ELSE Str(Lit("unknown"))

validateCategory(category) == IF category \in ValidCategory THEN category ELSE Str(Lit("other"))

validateDocumentType(type) == IF type \in ValidDocumentType THEN type ELSE Str(Lit("other"))

parseLabValue(value) ==
  IF TypeOf(value) = "number" THEN value
  ELSE IF TypeOf(value) = "string"
       THEN LET num == ParseFloatChars(value.s)
            IN IF ~IsNaN(num) THEN num ELSE value
       ELSE String(value)

\* parseFloat(x) || undefined
parseBound(x) ==
  LET num == ParseFloat(x)
  IN IF IsThrow(num) THEN num ELSE Or(num, Undef)

\* the first thrown error among the values, in evaluation order; Undef when none
FirstThrow(vs) ==
  IF \E i \in 1..Len(vs) : IsThrow(vs[i])
  THEN vs[CHOOSE i \in 1..Len(vs) : IsThrow(vs[i]) /\ \A j \in 1..(i - 1) : ~IsThrow(vs[j])]
  ELSE Undef

\* uuidv4(): the n-th identifier drawn
Uuid(n) == Str(<<"u">> \o NatToString(n))

\* lab.referenceRange ? { low, high, text } : undefined
normalizeRange(rr) ==
  IF ~Truthy(rr) THEN Undef
  ELSE Value(parseBound(Get(rr, "low")), LAMBDA low :
         IF IsThrow(low) THEN low
         ELSE Value(parseBound(Get(rr, "high")), LAMBDA high :
                IF IsThrow(high) THEN high
                ELSE Obj([low |-> low, high |-> high,
                          text |-> Or(Get(rr, "text"), Str(Lit("")))])))

\* the object literal of the labResults.map callback, with id its id
labFields(lab, id) ==
  Value(Get(lab, "testName"), LAMBDA testName :
    IF IsThrow(testName) THEN testName
    ELSE Value(parseLabValue(Get(lab, "value")), LAMBDA value :
           IF IsThrow(value) THEN value
           ELSE Value(normalizeRange(Get(lab, "referenceRange")), LAMBDA range :
                  IF IsThrow(range) THEN range
                  ELSE [id |-> id,
                        testName |-> Or(testName, Str(Lit("Unknown Test"))),
                        value |-> value,
                        unit |-> Or(Get(lab, "unit"), Str(Lit(""))),
                        referenceRange |-> range,
                        status |-> validateStatus(Get(lab, "status")),
                        category |-> validateCategory(Get(lab, "category"))])))

\* a mutant of normalizeLab: an id of the input is kept
normalizeLabKeepsId(lab, id) ==
  labFields(lab, IF Truthy(Get(lab, "id")) /\ ~IsThrow(Get(lab, "id")) THEN Get(lab, "id") ELSE id)

\* the labResults.map callback, given the identifier uuidv4() returns
normalizeLab(lab, id) == labFields(lab, id)

\* a mutant of arrayOrEmpty: the field as given
arrayAsGiven(x) == x

\* x || []
arrayOrEmpty(x) == Or(x, Arr(<<>>))

\* how many times uuidv4() is called: once per element, up to and including
\* the element on which the callback throws
UuidsDrawn(parsed) ==
  LET Thrown(src) == [i \in 1..Len(src.a) |-> IsThrow(normalizeLab(src.a[i], Undef))]
      Count(thrown) ==
        IF \E i \in 1..Len(thrown) : thrown[i]
        THEN CHOOSE i \in 1..Len(thrown) : thrown[i] /\ \A j \in 1..(i - 1) : ~thrown[j]
        ELSE Len(thrown)
  IN IF parsed.t \in {"undefined", "null"} THEN 0
     ELSE Value(arrayOrEmpty(Get(parsed, "labResults")), LAMBDA src :
            IF src.t # "array" THEN 0 ELSE Value(Thrown(src), Count))

\* confidence: 0.92, in hundredths
Confidence == 92

\* parseExtractionData(parsed), with uuid0 identifiers drawn before the call and
\* today what new Date().toISOString().split('T')[0] returns
parseExtractionData(parsed, uuid0, today) ==
  LET Mapped(src) == [i \in 1..Len(src.a) |-> normalizeLab(src.a[i], Uuid(uuid0 + i - 1))]
      Record(labs) ==
        [t |-> "return",
         extractedData |->
           [rawText |-> Or(Get(parsed, "rawText"), Str(Lit(""))),
            structuredData |->
              [patientInfo |-> Get(parsed, "patientInfo"),
               labResults |-> Arr(labs),
               medications |-> arrayOrEmpty(Get(parsed, "medications")),
               diagnoses |-> arrayOrEmpty(Get(parsed, "diagnoses")),
               vitals |-> arrayOrEmpty(Get(parsed, "vitals")),
               procedures |-> arrayOrEmpty(Get(parsed, "procedures")),
               imagingFindings |-> arrayOrEmpty(Get(parsed, "imagingFindings")),
               recommendations |-> arrayOrEmpty(Get(parsed, "recommendations"))],
            confidence |-> Confidence],
         documentType |-> validateDocumentType(Get(parsed, "documentType")),
         title |-> Or(Get(parsed, "title"), Str(Lit("Medical Document"))),
         date |-> Or(Get(parsed, "date"), today),
         provider |-> Get(parsed, "provider"),
         facility |-> Get(parsed, "facility")]
  IN Value(Get(parsed, "labResults"), LAMBDA given :
       IF IsThrow(given) THEN given
       ELSE IF arrayOrEmpty(given).t # "array" THEN Throw("TypeError", "map is not a function")
       ELSE Value(Mapped(arrayOrEmpty(given)), LAMBDA labs :
              IF IsThrow(FirstThrow(labs)) THEN FirstThrow(labs) ELSE Record(labs)))

(***************************************************************************)
(* Extraction inputs: what JSON.parse can hand to the normalizer.  A key   *)
(* whose value is Undef is a key the input does not have.                  *)
(***************************************************************************)
LowerLetters ==
  <<"a", "b", "c", "d", "e", "f", "g", "h", "i", "j", "k", "l", "m",
    "n", "o", "p", "q", "r", "s", "t", "u", "v", "w", "x", "y", "z">>

UpperLetters ==
  <<"A", "B", "C", "D", "E", "F", "G", "H", "I", "J", "K", "L", "M",
    "N", "O", "P", "Q", "R", "S", "T", "U", "V", "W", "X", "Y", "Z">>

ToUpperChar(c) ==
  IF \E i \in 1..26 : LowerLetters[i] = c
  THEN UpperLetters[CHOOSE i \in 1..26 : LowerLetters[i] = c]
  ELSE c

ToLowerChar(c) ==
  IF \E i \in 1..26 : UpperLetters[i] = c
  THEN LowerLetters[CHOOSE i \in 1..26 : UpperLetters[i] = c]
  ELSE c

\* String.prototype.toUpperCase / toLowerCase on characters
ToUpperCase(s) == [i \in 1..Len(s) |-> ToUpperChar(s[i])]

ToLowerCase(s) == [i \in 1..Len(s) |-> ToLowerChar(s[i])]

Capitalized(s) == [i \in 1..Len(s) |-> IF i = 1 THEN ToUpperChar(s[i]) ELSE s[i]]

ValueAlphabet == {"0", "7", "-", " ", "t"}

StringsUpTo(n) == UNION {[1..k -> ValueAlphabet] : k \in 0..n}

\* an object whose own "toString" is not callable
ToStringObject == Obj([toString |-> Num(1)])

\* inputs of a lab value or of a reference bound
ValueIn ==
  {Undef, Null, Bool(TRUE), Bool(FALSE), Num(0), Num(142), Num(-3),
   Arr(<<>>), Arr(<<Num(5)>>), Arr(<<Str(<<"7">>), Num(1)>>),
   Obj([k |-> Num(1)]), ToStringObject}
  \cup {Str(s) : s \in StringsUpTo(MaxStrLen)}

EnumMembers == ValidStatus \cup ValidCategory \cup ValidDocumentType

\* inputs of status, category and documentType: every member of the three
\* enumerations, their other-case spellings, and values that are no string
EnumIn ==
  EnumMembers
  \cup {Str(ToUpperCase(m.s)) : m \in EnumMembers}
  \cup {Str(Capitalized(m.s)) : m \in EnumMembers}
  \cup {Str(<<>>), Str(<<"a", "b", "n", "o", "r", "m", "a", "l">>),
        Undef, Null, Num(1), Bool(TRUE), Arr(<<Str(Lit("high"))>>)}

SampleRange == [low |-> Num(70), high |-> Num(100), text |-> Str(<<"7", "0", "-">>)]

RangeIn ==
  {Undef, Null, Num(5), Num(0), Str(<<"7">>), Str(<<>>), Bool(TRUE), Arr(<<>>),
   Obj([low |-> Undef, high |-> Undef, text |-> Undef])}
  \cup {Obj([SampleRange EXCEPT !.low = b]) : b \in ValueIn}
  \cup {Obj([SampleRange EXCEPT !.high = b]) : b \in ValueIn}
  \cup {Obj([SampleRange EXCEPT !.text = x]) : x \in {Undef, Str(<<>>), Num(0)}}

InputId == Str(<<"i", "d", "1">>)

LabFieldOptions ==
  ({"id"} \X {Undef, InputId, Uuid(0), Num(7)})
  \cup ({"testName"} \X {Undef, Null, Str(<<>>), Str(<<"L", "D", "L">>), Num(5), Num(0)})
  \cup ({"value"} \X ValueIn)
  \cup ({"unit"} \X {Undef, Str(<<>>), Str(<<"m", "g">>), Num(0)})
  \cup ({"referenceRange"} \X RangeIn)
  \cup ({"status"} \X EnumIn)
  \cup ({"category"} \X EnumIn)

SampleLab ==
  [id |-> InputId, testName |-> Str(<<"L", "D", "L">>), value |-> Num(142),
   unit |-> Str(<<"m", "g">>), referenceRange |-> Obj(SampleRange),
   status |-> Str(Lit("high")), category |-> Str(Lit("lipid"))]

EmptyLab ==
  [id |-> Undef, testName |-> Undef, value |-> Undef, unit |-> Undef,
   referenceRange |-> Undef, status |-> Undef, category |-> Undef]

\* lab objects: the sample and the empty object, with one key set
LabsIn ==
  {Obj([base EXCEPT ![fv[1]] = fv[2]]) : base \in {SampleLab, EmptyLab}, fv \in LabFieldOptions}

LabResultsIn ==
  {Undef, Null, Num(0), Num(3), Str(<<>>), Str(<<"t">>), Bool(TRUE), Obj([k |-> Num(1)]),
   Arr(<<>>), Arr(<<Null>>), Arr(<<Num(5)>>), Arr(<<Str(<<"t">>)>>), Arr(<<Arr(<<>>)>>)}
  \cup {Arr(<<l>>) : l \in LabsIn}
  \cup {Arr(<<Obj(SampleLab), l>>) : l \in LabsIn \cup {Null}}
  \cup {Arr(<<l, Obj(SampleLab)>>) : l \in LabsIn \cup {Null}}

ArrayFieldIn ==
  {Undef, Null, Num(0), Num(2), Str(<<>>), Str(<<"t">>), Arr(<<>>), Arr(<<Str(<<"t">>)>>)}

SampleDate == Str(<<"2", "0", "2", "5", "-", "0", "6", "-", "1", "0">>)

TopFieldOptions ==
  ({"labResults"} \X LabResultsIn)
  \cup ({"medications", "diagnoses", "recommendations", "vitals"} \X ArrayFieldIn)
  \cup ({"documentType"} \X EnumIn)
  \cup ({"title"} \X {Undef, Str(<<>>), Str(<<"C", "B", "C">>), Num(0)})
  \cup ({"date"} \X {Undef, Null, Str(<<>>), SampleDate})

SampleParsed ==
  [documentType |-> Str(Lit("lab_report")), title |-> Str(<<"C", "B", "C">>),
   date |-> SampleDate, provider |-> Str(<<"D", "r">>), facility |-> Undef,
   patientInfo |-> Obj([name |-> Str(<<"J">>)]), rawText |-> Str(<<"t">>),
   labResults |-> Arr(<<Obj(SampleLab)>>),
   medications |-> Arr(<<Obj([name |-> Str(<<"t">>)])>>),
   diagnoses |-> Arr(<<Obj([name |-> Str(<<"t">>)])>>),
   vitals |-> Arr(<<>>), procedures |-> Undef, imagingFindings |-> Undef,
   recommendations |-> Arr(<<Str(<<"t">>)>>)]

EmptyParsed ==
  [documentType |-> Undef, title |-> Undef, date |-> Undef, provider |-> Undef,
   facility |-> Undef, patientInfo |-> Undef, rawText |-> Undef, labResults |-> Undef,
   medications |-> Undef, diagnoses |-> Undef, vitals |-> Undef, procedures |-> Undef,
   imagingFindings |-> Undef, recommendations |-> Undef]

\* JSON objects: the sample and the empty object, with one key set
ObjectsIn ==
  {Obj([base EXCEPT ![fv[1]] = fv[2]]) :
     base \in {SampleParsed, EmptyParsed}, fv \in TopFieldOptions}

\* what the caller passes: a JSON object, or another JSON value
ExtractionInputs == ObjectsIn \cup {Undef, Null, Num(42), Str(<<"t">>), Bool(TRUE), Arr(<<>>)}

TodayDates ==
  {Str(<<"2", "0", "2", "6", "-", "0", "1", "-", "0", "5">>),
   Str(<<"2", "0", "2", "6", "-", "0", "1", "-", "0", "6">>)}

(***************************************************************************)
(* The extraction response: the text the vision model returns.  A text is  *)
(* a sequence of pieces, each a run of characters that the code only       *)
(* tests as a whole: the fence of three backquotes, the word json, a brace, *)
(* a line break, a word of prose, a JSON member without braces.            *)
(***************************************************************************)
\* the fence: three backquotes
FENCE == "[fence]"
JSONWORD == "json"
LBRACE == "{"
RBRACE == "}"
NEWLINE == "\n"
PROSE == "Here"
COMMA == ","
NULLWORD == "null"
NUMBER42 == "42"
\* "title":"CBC"
TITLE == "\"title\":\"CBC\""
\* "status":"HIGH"
STATUS == "\"status\":\"HIGH\""
\* "labResults":[  and the closing ]
LABSOPEN == "\"labResults\":["
CLOSE == "]"

\* String.prototype.trim on pieces
RECURSIVE TrimEnd(_)
TrimEnd(s) ==
  IF Len(s) > 0 /\ IsWhite(s[Len(s)]) THEN TrimEnd(SubSeq(s, 1, Len(s) - 1)) ELSE s

Trim(s) == TrimEnd(SkipWhite(s))

\* jsonText.slice(7) after startsWith(fence json)
StripJsonFence(s) ==
  IF Len(s) >= 2 /\ s[1] = FENCE /\ s[2] = JSONWORD THEN SubSeq(s, 3, Len(s)) ELSE s

\* jsonText.slice(3) after startsWith(fence)
StripOpenFence(s) == IF Len(s) >= 1 /\ s[1] = FENCE THEN Tail(s) ELSE s

\* jsonText.slice(0, -3) after endsWith(fence)
StripCloseFence(s) ==
  IF Len(s) >= 1 /\ s[Len(s)] = FENCE THEN SubSeq(s, 1, Len(s) - 1) ELSE s

\* the three fence tests, in the order of the source
StripFences(s) == StripCloseFence(StripOpenFence(StripJsonFence(s)))

\* JSON.parse, by recursive descent; a result is [ok, val, rest]
NoParse == [ok |-> FALSE]

Parsed(v, r) == [ok |-> TRUE, val |-> v, rest |-> r]

\* an object of the response: the keys its members can set
EmptyObject == [title |-> Undef, status |-> Undef, labResults |-> Undef]

RECURSIVE ParseValue(_)
RECURSIVE ParseMembers(_, _)
RECURSIVE ParseElements(_, _)

\* one member at the head of s, set in acc
ParseMember(s, acc) ==
  IF Head(s) = TITLE THEN Parsed([acc EXCEPT !.title = Str(<<"C", "B", "C">>)], Tail(s))
  ELSE IF Head(s) = STATUS
  THEN Parsed([acc EXCEPT !.status = Str(ToUpperCase(Lit("high")))], Tail(s))
  ELSE IF Head(s) = LABSOPEN
  THEN LET AfterArray(a) ==
             IF a.ok THEN Parsed([acc EXCEPT !.labResults = a.val], a.rest) ELSE NoParse
       IN IF Len(SkipWhite(Tail(s))) > 0 /\ Head(SkipWhite(Tail(s))) = CLOSE
          THEN Parsed([acc EXCEPT !.labResults = Arr(<<>>)], Tail(SkipWhite(Tail(s))))
          ELSE Value(ParseElements(SkipWhite(Tail(s)), <<>>), AfterArray)
  ELSE NoParse

\* the members of an object after "{" or ",", acc the keys read so far
ParseMembers(s, acc) ==
  LET AfterMember(m) ==
        IF ~m.ok \/ Len(SkipWhite(m.rest)) = 0 THEN NoParse
        ELSE IF Head(SkipWhite(m.rest)) = RBRACE
        THEN Parsed(Obj(m.val), Tail(SkipWhite(m.rest)))
        ELSE IF Head(SkipWhite(m.rest)) = COMMA
        THEN ParseMembers(SkipWhite(Tail(SkipWhite(m.rest))), m.val)
        ELSE NoParse
  IN IF Len(s) = 0 THEN NoParse ELSE Value(ParseMember(s, acc), AfterMember)

\* the elements of an array after "[" or ",", acc the elements read so far
ParseElements(s, acc) ==
  LET AfterElement(v) ==
        IF ~v.ok \/ Len(SkipWhite(v.rest)) = 0 THEN NoParse
        ELSE IF Head(SkipWhite(v.rest)) = CLOSE
        THEN Parsed(Arr(Append(acc, v.val)), Tail(SkipWhite(v.rest)))
        ELSE IF Head(SkipWhite(v.rest)) = COMMA
        THEN ParseElements(SkipWhite(Tail(SkipWhite(v.rest))), Append(acc, v.val))
        ELSE NoParse
  IN Value(ParseValue(s), AfterElement)

ParseValue(s) ==
  IF Len(s) = 0 THEN NoParse
  ELSE IF Head(s) = NULLWORD THEN Parsed(Null, Tail(s))
  ELSE IF Head(s) = NUMBER42 THEN Parsed(Num(42), Tail(s))
  ELSE IF Head(s) = LBRACE
  THEN IF Len(SkipWhite(Tail(s))) > 0 /\ Head(SkipWhite(Tail(s))) = RBRACE
       THEN Parsed(Obj(EmptyObject), Tail(SkipWhite(Tail(s))))
       ELSE ParseMembers(SkipWhite(Tail(s)), EmptyObject)
  ELSE NoParse

\* JSON.parse(text): the value, or the SyntaxError it throws
JsonParse(text) ==
  LET Whole(v) ==
        IF v.ok /\ Len(SkipWhite(v.rest)) = 0 THEN v.val
        ELSE Throw("SyntaxError", "Unexpected token")
  IN Value(ParseValue(SkipWhite(text)), Whole)

HasSpan(text) ==
  \E i, j \in 1..Len(text) : i < j /\ text[i] = LBRACE /\ text[j] = RBRACE

\* a mutant of OutermostSpan: the lazy match, up to the first closing brace
FirstSpan(text) ==
  LET i == CHOOSE i \in 1..Len(text) : text[i] = LBRACE /\ \A k \in 1..(i - 1) : text[k] # LBRACE
      j == CHOOSE j \in (i + 1)..Len(text) :
             text[j] = RBRACE /\ \A k \in (i + 1)..(j - 1) : text[k] # RBRACE
  IN SubSeq(text, i, j)

\* text.match(/\{[\s\S]*\}/)[0]: from the first opening brace to the last
\* closing brace after it
OutermostSpan(text) ==
  LET i == CHOOSE i \in 1..Len(text) : text[i] = LBRACE /\ \A k \in 1..(i - 1) : text[k] # LBRACE
      j == CHOOSE j \in (i + 1)..Len(text) :
             text[j] = RBRACE /\ \A k \in (j + 1)..Len(text) : text[k] # RBRACE
  IN SubSeq(text, i, j)

\* part_002:481-498: the parsed value of the response, or the error thrown
parseJsonText(responseText) ==
  LET jsonText == Trim(StripFences(Trim(responseText)))
      Caught(direct) ==
        IF ~IsThrow(direct) THEN direct
        ELSE IF HasSpan(jsonText) THEN JsonParse(OutermostSpan(jsonText))
        ELSE Throw("Error", "Could not parse JSON from response")
  IN Value(JsonParse(jsonText), Caught)

\* parseExtractionResponse(responseText): lines 500-535 are the statements of
\* parseExtractionData
parseExtractionResponse(responseText, uuid0, today) ==
  LET Hydrate(p) == IF IsThrow(p) THEN p ELSE parseExtractionData(p, uuid0, today)
  IN Value(parseJsonText(responseText), Hydrate)

\* handleExtraction, part_011:87-104: the body of the route's answer, or the
\* error thrown; the fallback matches the text as received
handleExtraction(text) ==
  LET Answer(p) == IF IsThrow(p) THEN p ELSE [t |-> "json", success |-> TRUE, data |-> p]
      Caught(direct) ==
        IF ~IsThrow(direct) THEN Answer(direct)
        ELSE IF HasSpan(text) THEN Value(JsonParse(OutermostSpan(text)), Answer)
        ELSE Throw("Error", "Could not parse response")
  IN Value(JsonParse(Trim(StripFences(Trim(text)))), Caught)

(***************************************************************************)
(* The normalizer as a state machine: the caller hands it one extraction   *)
(* input after another.                                                    *)
(***************************************************************************)
None == [t |-> "none"]

IsReturn(v) == v.t = "return"

LabsOf(rec) == rec.extractedData.structuredData.labResults.a

\* the ids issued so far, with those of the record out when it is one
IssuedAfter(out) ==
  IF IsReturn(out) THEN issued \o [i \in 1..Len(LabsOf(out)) |-> LabsOf(out)[i].id]
  ELSE issued

\* no response is in flight
NoResponse ==
  /\ reply = <<>>
  /\ apiResult = "ok"
  /\ config = [useRealAPI |-> FALSE, hfToken |-> FALSE, googleKey |-> FALSE]
  /\ ran = "none"

NoTrends == [t |-> "none"]

\* the store as created, part_004:389-393
NoStore ==
  /\ documents = <<>>
  /\ trends = NoTrends

\* the page on the dashboard, page.tsx:33-34
AtDashboard == [currentView |-> "dashboard", selectedDocument |-> None]

\* no DocumentUpload is mounted; instance counts the components mounted so far
NoUpload ==
  [instance |-> 0, mounted |-> FALSE, step |-> "select", selectedImage |-> None,
   processedDocument |-> None]

\* no AudioRecorder was constructed
NoRecorder == [made |-> FALSE]

\* alerts and flag of the store as created (part_004:389-393), no component
\* mounted
NoApp ==
  /\ alerts = <<>>
  /\ isProcessing = FALSE
  /\ timeline = None
  /\ home = AtDashboard
  /\ upload = NoUpload
  /\ analyses = <<>>
  /\ recorder = NoRecorder

\* one call of parseExtractionData(data), medgemma.ts:45: p is the argument, d the
\* date the clock shows
Normalize(p, d) ==
  /\ calls' = calls + 1
  /\ data' = p
  /\ clock' = d
  /\ outcome' = parseExtractionData(p, uuids, d)
  /\ uuids' = uuids + UuidsDrawn(p)
  /\ issued' = IssuedAfter(outcome')
  /\ UNCHANGED <<respVars, storeVars, appVars>>

\* The function on every extraction input: the input is drawn at the start and
\* normalized once.
InitNormalize ==
  /\ data \in ExtractionInputs
  /\ clock \in TodayDates
  /\ outcome = None
  /\ uuids = 0
  /\ issued = <<>>
  /\ calls = 0
  /\ NoResponse
  /\ NoStore
  /\ NoApp

NormalizeOnce ==
  /\ calls = 0
  /\ Normalize(data, clock)

NextNormalize == NormalizeOnce

SpecNormalize == InitNormalize /\ [][NextNormalize]_vars

\* Call after call: the inputs that differ in their lab results' ids and number.
RepeatInputs ==
  {Obj([SampleParsed EXCEPT !.labResults = l]) :
     l \in {Undef, Arr(<<>>), Arr(<<Null>>), Arr(<<Obj(SampleLab), Null>>)}
           \cup {Arr(<<Obj([SampleLab EXCEPT !.id = x])>>) : x \in {Undef, InputId, Uuid(0), Uuid(1)}}
           \cup {Arr(<<Obj([SampleLab EXCEPT !.id = x]), Obj([SampleLab EXCEPT !.id = y])>>) :
                   x \in {InputId, Uuid(1)}, y \in {Undef, InputId, Uuid(0)}}}

InitRepeat ==
  /\ data = Undef
  /\ clock \in TodayDates
  /\ outcome = None
  /\ uuids = 0
  /\ issued = <<>>
  /\ calls = 0
  /\ NoResponse
  /\ NoStore
  /\ NoApp

NormalizeAgain ==
  /\ calls < MaxRuns
  /\ \E p \in RepeatInputs : Normalize(p, clock)

NextRepeat == NormalizeAgain

SpecRepeat == InitRepeat /\ [][NextRepeat]_vars

(***************************************************************************)
(* The extraction response as a state machine: the vision model answers    *)
(* with a text, and the parser of the client (part_002) or of the route    *)
(* (part_011) reads it.                                                    *)
(***************************************************************************)
RECURSIVE PiecesUpTo(_, _)
\* the texts of at most n pieces of the set ps
PiecesUpTo(ps, n) ==
  IF n = 0 THEN {<<>>}
  ELSE LET shorter == PiecesUpTo(ps, n - 1)
       IN shorter \cup {Append(s, p) : s \in shorter, p \in ps}

\* what surrounds the JSON of an answer: fences, the word json, line breaks, prose
WrapPieces == {FENCE, JSONWORD, NEWLINE, PROSE}

TextPieces == WrapPieces \cup {LBRACE, RBRACE, TITLE}

\* object texts, the shape the prompt asks for
ObjectTexts ==
  {<<LBRACE, RBRACE>>,
   <<LBRACE, TITLE, RBRACE>>,
   <<LBRACE, NEWLINE, TITLE, COMMA, NEWLINE, STATUS, NEWLINE, RBRACE>>,
   <<LBRACE, LABSOPEN, CLOSE, RBRACE>>,
   <<LBRACE, LABSOPEN, LBRACE, STATUS, RBRACE, CLOSE, RBRACE>>,
   <<LBRACE, TITLE, COMMA, LABSOPEN, LBRACE, RBRACE, COMMA, LBRACE, STATUS, RBRACE, CLOSE, RBRACE>>,
   <<LBRACE, LABSOPEN, NULLWORD, CLOSE, RBRACE>>,
   <<LBRACE, LABSOPEN, NUMBER42, CLOSE, RBRACE>>}

\* texts that are cut short or hold a stray piece
BrokenTexts ==
  {<<LBRACE, TITLE, COMMA, RBRACE>>,
   <<LBRACE, LABSOPEN, LBRACE, STATUS, RBRACE, RBRACE>>,
   <<LBRACE, LABSOPEN, LBRACE, STATUS, CLOSE, RBRACE>>,
   <<LBRACE, TITLE, RBRACE, PROSE, LBRACE, TITLE, RBRACE>>,
   <<NULLWORD>>, <<NUMBER42>>, <<FENCE, JSONWORD, NEWLINE, NUMBER42, NEWLINE, FENCE>>}

Prefixes ==
  {<<>>, <<FENCE, JSONWORD, NEWLINE>>, <<FENCE, JSONWORD>>, <<FENCE, NEWLINE>>, <<PROSE>>,
   <<PROSE, NEWLINE, FENCE, JSONWORD, NEWLINE>>}

Suffixes == {<<>>, <<NEWLINE, FENCE>>, <<FENCE>>, <<PROSE>>, <<NEWLINE, FENCE, NEWLINE, PROSE>>}

ResponseTexts ==
  PiecesUpTo(TextPieces, MaxTextLen)
  \cup {p \o b \o s : p \in Prefixes, b \in ObjectTexts \cup BrokenTexts, s \in Suffixes}

\* one call of parseExtractionResponse(responseText), part_002:473
ParseExtractionResponse ==
  /\ ran = "none"
  /\ ran' = "parseExtractionResponse"
  /\ outcome' = parseExtractionResponse(reply, uuids, clock)
  /\ data' = parseJsonText(reply)
  /\ uuids' = uuids + (IF IsThrow(data') THEN 0 ELSE UuidsDrawn(data'))
  /\ issued' = IssuedAfter(outcome')
  /\ calls' = calls + 1
  /\ UNCHANGED <<clock, reply, apiResult, config, storeVars, appVars>>

\* the parse of handleExtraction, part_011:87-104, on the text of the answer
HandleExtraction ==
  /\ ran = "none"
  /\ ran' = "handleExtraction"
  /\ outcome' = handleExtraction(reply)
  /\ data' = IF IsThrow(outcome') THEN Undef ELSE outcome'.data
  /\ calls' = calls + 1
  /\ UNCHANGED <<uuids, issued, clock, reply, apiResult, config, storeVars, appVars>>

InitResponse ==
  /\ reply \in ResponseTexts
  /\ apiResult = "ok"
  /\ config = [useRealAPI |-> TRUE, hfToken |-> FALSE, googleKey |-> TRUE]
  /\ ran = "none"
  /\ data = Undef
  /\ clock = SampleDate
  /\ outcome = None
  /\ uuids = 0
  /\ issued = <<>>
  /\ calls = 0
  /\ NoStore
  /\ NoApp

NextResponse == ParseExtractionResponse \/ HandleExtraction

SpecResponse == InitResponse /\ [][NextResponse]_vars

(***************************************************************************)
(* extractDocumentData: the client that calls the vision model itself and  *)
(* falls back to demo data (part_002), and the client of the /api/analyze  *)
(* route (lib/medgemma.ts with part_011).                                  *)
(***************************************************************************)
\* the string a request to the vision model resolves to
Text(s) == [t |-> "text", text |-> s]

GoogleApiError == Throw("Error", "Google API error: 503")

VisionApiError == Throw("Error", "Vision API error: 500 - Internal Server Error")

VisionApiLoading == Throw("Error", "Vision API error: 503 - Model is currently loading")

\* error.message.includes('loading'), on the messages above and those of the parser
IncludesLoading(m) == m = VisionApiLoading.m

\* callGoogleVision, part_002:288: api is how the request ends, text the answer
callGoogleVision(cfg, api, text) ==
  IF ~cfg.googleKey THEN Throw("Error", "Google API key not configured")
  ELSE IF api # "ok" THEN GoogleApiError
  ELSE Text(text)

\* callMedGemmaVision, part_002:243
callMedGemmaVision(cfg, api, text) ==
  IF cfg.googleKey THEN callGoogleVision(cfg, api, text)
  ELSE IF ~cfg.hfToken THEN Throw("Error", "No API tokens configured")
  ELSE IF api = "loading" THEN VisionApiLoading
  ELSE IF api # "ok" THEN VisionApiError
  ELSE Text(text)

\* how many lab results each demo scenario holds, every one with a uuidv4() id
DemoLabs == <<4, 4, 4, 3, 7>>

RECURSIVE Sum(_)
Sum(ns) == IF Len(ns) = 0 THEN 0 ELSE Head(ns) + Sum(Tail(ns))

\* simulateExtraction, part_002:682: the five scenarios are built, one is picked
simulateExtraction(hash, uuid0) ==
  LET k == (hash % Len(DemoLabs)) + 1
      before == Sum(SubSeq(DemoLabs, 1, k - 1))
  IN [t |-> "demo", scenario |-> k,
      ids |-> [i \in 1..DemoLabs[k] |-> Uuid(uuid0 + before + i - 1)]]

\* the try block of extractDocumentData, part_002:349-352
realExtraction(cfg, api, text, uuid0, today) ==
  LET responseText == callMedGemmaVision(cfg, api, text)
  IN IF IsThrow(responseText) THEN responseText
     ELSE parseExtractionResponse(responseText.text, uuid0, today)

\* the real API is switched on and a token is there, part_002:348
UsesRealAPI(cfg) == cfg.useRealAPI /\ (cfg.hfToken \/ cfg.googleKey)

\* extractDocumentData, part_002:331-363
extractDocumentDataLocal(cfg, api, text, hash, uuid0, today) ==
  LET Caught(real) ==
        IF ~IsThrow(real) THEN real
        ELSE IF IncludesLoading(real.m) THEN real
        ELSE simulateExtraction(hash, uuid0)
  IN IF UsesRealAPI(cfg) THEN Value(realExtraction(cfg, api, text, uuid0, today), Caught)
     ELSE simulateExtraction(hash, uuid0)

\* NextResponse.json(body, {status})
Response(status, body) == [t |-> "response", status |-> status, body |-> body]

\* POST of /api/analyze with action extract, part_011:10-34 and 36-105; the key
\* of the server is the key of the configuration
POST(cfg, api, text) ==
  LET Caught(answer) ==
        IF IsThrow(answer) THEN Response(500, [error |-> "Processing failed"])
        ELSE Response(200, [success |-> answer.success, data |-> answer.data])
  IN IF ~cfg.googleKey THEN Response(500, [error |-> "API not configured"])
     ELSE IF api # "ok" THEN Caught(Throw("Error", "API error: 503"))
     ELSE Value(handleExtraction(text), Caught)

\* extractDocumentData, lib/medgemma.ts:18-51; the data of the answer are the
\* JSON value the route parsed
extractDocumentData(cfg, api, text, uuid0, today) ==
  LET Hydrate(response) ==
        IF response.status # 200 THEN Throw("Error", response.body.error)
        ELSE parseExtractionData(response.body.data, uuid0, today)
  IN Value(POST(cfg, api, text), Hydrate)

\* the identifiers a result took from uuidv4()
DrawnBy(out, d) ==
  IF out.t = "demo" THEN Sum(DemoLabs)
  ELSE IF IsThrow(d) \/ d.t = "none" THEN 0
  ELSE UuidsDrawn(d)

ImageHashes == {0, 3, 7}

ExtractTexts ==
  {<<>>, <<PROSE>>, <<NULLWORD>>, <<PROSE, LBRACE, PROSE, RBRACE>>,
   <<LBRACE, TITLE, RBRACE>>,
   <<FENCE, JSONWORD, NEWLINE, LBRACE, LABSOPEN, LBRACE, STATUS, RBRACE, CLOSE, RBRACE, NEWLINE, FENCE>>,
   <<LBRACE, LABSOPEN, NULLWORD, CLOSE, RBRACE>>}

Configs == [useRealAPI : BOOLEAN, hfToken : BOOLEAN, googleKey : BOOLEAN]

ApiResults == {"ok", "error", "loading"}

\* extractDocumentData of part_002 on an image with the hash
ExtractDocumentDataLocal ==
  /\ ran = "none"
  /\ ran' = "extractDocumentDataLocal"
  /\ \E hash \in ImageHashes :
       outcome' = extractDocumentDataLocal(config, apiResult, reply, hash, uuids, clock)
  /\ data' = IF UsesRealAPI(config) /\ apiResult = "ok" THEN parseJsonText(reply) ELSE None
  /\ uuids' = uuids + DrawnBy(outcome', data')
  /\ issued' = IssuedAfter(outcome')
  /\ calls' = calls + 1
  /\ UNCHANGED <<clock, reply, apiResult, config, storeVars, appVars>>

\* extractDocumentData of lib/medgemma.ts
ExtractDocumentData ==
  /\ ran = "none"
  /\ ran' = "extractDocumentData"
  /\ outcome' = extractDocumentData(config, apiResult, reply, uuids, clock)
  /\ data' = IF POST(config, apiResult, reply).status = 200
             THEN POST(config, apiResult, reply).body.data ELSE None
  /\ uuids' = uuids + DrawnBy(outcome', data')
  /\ issued' = IssuedAfter(outcome')
  /\ calls' = calls + 1
  /\ UNCHANGED <<clock, reply, apiResult, config, storeVars, appVars>>

InitExtract ==
  /\ reply \in ExtractTexts
  /\ apiResult \in ApiResults
  /\ config \in Configs
  /\ ran = "none"
  /\ data = Undef
  /\ clock = SampleDate
  /\ outcome = None
  /\ uuids = 0
  /\ issued = <<>>
  /\ calls = 0
  /\ NoStore
  /\ NoApp

NextExtract == ExtractDocumentDataLocal \/ ExtractDocumentData

SpecExtract == InitExtract /\ [][NextExtract]_vars

(***************************************************************************)
(* The store (lib/store): the documents, and the lab trends derived from   *)
(* them.  A stored document is built by processDocument from the record    *)
(* the normalizer returned.                                                *)
(***************************************************************************)
Abs(x) == IF x < 0 THEN -x ELSE x

\* s is of the form YYYY-MM-DD
IsIsoDate(s) ==
  /\ Len(s) = 10
  /\ s[5] = "-"
  /\ s[8] = "-"
  /\ \A i \in {1, 2, 3, 4, 6, 7, 9, 10} : IsDigit(s[i])

\* new Date(date).getTime() of a date of the form YYYY-MM-DD, counted in days of
\* a calendar of 31-day months (the sort uses the sign of differences only);
\* NaN for everything else
getTime(date) ==
  IF date.t = "string" /\ IsIsoDate(date.s)
  THEN Num(DigitsValue(SubSeq(date.s, 1, 4), 0) * 372
           + DigitsValue(SubSeq(date.s, 6, 7), 0) * 31
           + DigitsValue(SubSeq(date.s, 9, 10), 0))
  ELSE NaN

\* x.toLowerCase()
toLowerCase(x) ==
  IF x.t = "string" THEN Str(ToLowerCase(x.s))
  ELSE IF x.t \in {"undefined", "null"} THEN Throw("TypeError", "Cannot read properties")
  ELSE Throw("TypeError", "toLowerCase is not a function")

\* a mutant of canonicalKey: the name as it is written
keyAsWritten(testName) == IF testName.t = "string" THEN testName ELSE toLowerCase(testName)

\* the key of the map of getLabTrends: result.testName.toLowerCase()
canonicalKey(testName) == toLowerCase(testName)

\* doc.extractedData.structuredData.labResults || []
LabResultsOf(doc) == arrayOrEmpty(doc.extractedData.structuredData.labResults).a

RECURSIVE Entries(_)
\* the two forEach loops: every lab result with the date of its document, in the
\* order of the store
Entries(docs) ==
  IF Len(docs) = 0 THEN <<>>
  ELSE [i \in 1..Len(LabResultsOf(Head(docs))) |->
          [result |-> LabResultsOf(Head(docs))[i], date |-> Head(docs).date]]
       \o Entries(Tail(docs))

RECURSIVE KeysInOrder(_, _)
\* the keys of the map in insertion order
KeysInOrder(entries, seen) ==
  LET Rest(next) == KeysInOrder(Tail(entries), next)
      Set(key) == IF \E i \in 1..Len(seen) : seen[i] = key THEN seen ELSE Append(seen, key)
  IN IF Len(entries) = 0 THEN seen
     ELSE Value(Value(canonicalKey(Head(entries).result.testName), Set), Rest)

\* labResultsByTest.get(key)
ResultsOf(entries, key) ==
  LET HasKey(e) == canonicalKey(e.result.testName) = key
  IN SelectSeq(entries, HasKey)

\* the comparator of the sort: the difference of the times, and 0 when it is NaN
CompareDates(a, b) ==
  IF IsNaN(getTime(a.date)) \/ IsNaN(getTime(b.date)) THEN 0
  ELSE getTime(a.date).n - getTime(b.date).n

\* e after the entries that do not compare greater
InsertByDate(sorted, e) ==
  LET pos == Cardinality({i \in 1..Len(sorted) : CompareDates(sorted[i], e) <= 0})
  IN SubSeq(sorted, 1, pos) \o <<e>> \o SubSeq(sorted, pos + 1, Len(sorted))

RECURSIVE SortByDate(_, _)
\* results.sort(...): the sort is stable
SortByDate(results, sorted) ==
  LET Rest(next) == SortByDate(Tail(results), next)
  IN IF Len(results) = 0 THEN sorted
     ELSE Value(InsertByDate(sorted, Head(results)), Rest)

\* the comparator is not a consistent comparison function on results: a date
\* that is no date compares equal to two dates that differ
Inconsistent(results) ==
  /\ \E i \in 1..Len(results) : IsNaN(getTime(results[i].date))
  /\ \E j, k \in 1..Len(results) :
       /\ ~IsNaN(getTime(results[j].date))
       /\ ~IsNaN(getTime(results[k].date))
       /\ getTime(results[j].date) # getTime(results[k].date)

\* results in the order of the ranks of their positions
PermuteBy(results, rank) ==
  LET n == Len(results)
      Before(j) == Cardinality({m \in 1..n : rank[m] < rank[j]})
  IN [p \in 1..n |-> results[CHOOSE j \in 1..n : Before(j) = p - 1]]

\* results.sort(comparator), part_004:451: stable under a consistent comparator;
\* under an inconsistent one the order is left to the engine, here the order
\* of rank
sort(results, rank) ==
  IF Inconsistent(results) THEN PermuteBy(results, rank) ELSE SortByDate(results, <<>>)

\* typeof value === 'number' ? value : parseFloat(String(value)) || 0
PointValue(value) == IF TypeOf(value) = "number" THEN value ELSE Or(ParseFloat(value), Num(0))

\* the map and filter that build dataPoints
DataPoints(results) ==
  LET points == [i \in 1..Len(results) |->
                   [date |-> results[i].date,
                    value |-> PointValue(results[i].result.value),
                    status |-> results[i].result.status]]
      IsNumber(dp) == ~IsNaN(dp.value)
  IN SelectSeq(points, IsNumber)

\* a mutant of CurrentStatus: a falling value on a high baseline counts as improving
CurrentStatusSymmetric(dataPoints, firstResult) ==
  IF Len(dataPoints) < 2 THEN "unknown"
  ELSE LET recent == dataPoints[Len(dataPoints)]
           previous == dataPoints[Len(dataPoints) - 1]
           diff == recent.value.n - previous.value.n
           normal == Str(Lit("normal"))
       IN IF 20 * Abs(diff) <= Abs(previous.value.n) THEN "stable"
          ELSE IF recent.status = normal /\ previous.status # normal THEN "improving"
          ELSE IF recent.status # normal /\ previous.status = normal THEN "worsening"
          ELSE IF diff > 0 /\ firstResult.status = Str(Lit("high")) THEN "worsening"
          ELSE IF diff < 0 /\ firstResult.status = Str(Lit("low")) THEN "worsening"
          ELSE IF diff < 0 /\ firstResult.status = Str(Lit("high")) THEN "improving"
          ELSE "stable"

\* a mutant of CurrentStatus: the statuses are looked at before the band
CurrentStatusFlipFirst(dataPoints, firstResult) ==
  IF Len(dataPoints) < 2 THEN "unknown"
  ELSE LET recent == dataPoints[Len(dataPoints)]
           previous == dataPoints[Len(dataPoints) - 1]
           diff == recent.value.n - previous.value.n
           normal == Str(Lit("normal"))
       IN IF recent.status = normal /\ previous.status # normal THEN "improving"
          ELSE IF recent.status # normal /\ previous.status = normal THEN "worsening"
          ELSE IF 20 * Abs(diff) <= Abs(previous.value.n) THEN "stable"
          ELSE IF diff > 0 /\ firstResult.status = Str(Lit("high")) THEN "worsening"
          ELSE IF diff < 0 /\ firstResult.status = Str(Lit("low")) THEN "worsening"
          ELSE "stable"

\* a mutant of CurrentStatus: the change is measured from the first data point
CurrentStatusSinceFirst(dataPoints, firstResult) ==
  IF Len(dataPoints) < 2 THEN "unknown"
  ELSE LET recent == dataPoints[Len(dataPoints)]
           previous == dataPoints[1]
           diff == recent.value.n - previous.value.n
           normal == Str(Lit("normal"))
       IN IF 20 * Abs(diff) <= Abs(previous.value.n) THEN "stable"
          ELSE IF recent.status = normal /\ previous.status # normal THEN "improving"
          ELSE IF recent.status # normal /\ previous.status = normal THEN "worsening"
          ELSE IF diff > 0 /\ firstResult.status = Str(Lit("high")) THEN "worsening"
          ELSE IF diff < 0 /\ firstResult.status = Str(Lit("low")) THEN "worsening"
          ELSE "stable"

\* the trend direction, part_004:463-484; 5% of the previous value is compared
\* in twentieths
CurrentStatus(dataPoints, firstResult) ==
  IF Len(dataPoints) < 2 THEN "unknown"
  ELSE LET recent == dataPoints[Len(dataPoints)]
           previous == dataPoints[Len(dataPoints) - 1]
           diff == recent.value.n - previous.value.n
           normal == Str(Lit("normal"))
       IN IF 20 * Abs(diff) <= Abs(previous.value.n) THEN "stable"
          ELSE IF recent.status = normal /\ previous.status # normal THEN "improving"
          ELSE IF recent.status # normal /\ previous.status = normal THEN "worsening"
          ELSE IF diff > 0 /\ firstResult.status = Str(Lit("high")) THEN "worsening"
          ELSE IF diff < 0 /\ firstResult.status = Str(Lit("low")) THEN "worsening"
          ELSE "stable"

\* the default bounds of a trend's range
DefaultLow == 0

DefaultHigh == 100

\* the trend pushed for the results of one key, part_004:486-496
Trend(results) ==
  LET firstResult == results[1].result
      Pushed(dataPoints) ==
        [testName |-> firstResult.testName,
         category |-> firstResult.category,
         unit |-> firstResult.unit,
         dataPoints |-> dataPoints,
         currentStatus |-> CurrentStatus(dataPoints, firstResult),
         referenceRange |->
           IF Truthy(firstResult.referenceRange)
           THEN Obj([low |-> Or(Get(firstResult.referenceRange, "low"), Num(DefaultLow)),
                     high |-> Or(Get(firstResult.referenceRange, "high"), Num(DefaultHigh))])
           ELSE Undef]
  IN Value(DataPoints(results), Pushed)

\* labResultsByTest.forEach: the trends of the keys in order, those without a
\* data point left out
TrendsOf(entries, order, rank) ==
  LET HasPoints(trend) == Len(trend.dataPoints) > 0
      Sorted(key) == Value(ResultsOf(entries, key), LAMBDA results : sort(results, rank))
  IN SelectSeq([i \in 1..Len(order) |-> Value(Sorted(order[i]), Trend)], HasPoints)

\* getLabTrends() on the documents of the store, part_004:430-502
getLabTrends(docs, rank) ==
  LET Grouped(entries) ==
        LET keys == [i \in 1..Len(entries) |-> canonicalKey(entries[i].result.testName)]
            Built(order) == Arr(TrendsOf(entries, order, rank))
        IN IF IsThrow(FirstThrow(keys)) THEN FirstThrow(keys)
           ELSE Value(KeysInOrder(entries, <<>>), Built)
  IN Value(Entries(docs), Grouped)

\* the document processDocument builds from the record of the normalizer,
\* part_009:92-105, at the time now
Document(id, rec, now) ==
  [id |-> id, type |-> rec.documentType, title |-> rec.title, date |-> rec.date,
   provider |-> rec.provider, facility |-> rec.facility,
   extractedData |-> rec.extractedData, voiceNotes |-> <<>>,
   createdAt |-> now, updatedAt |-> now]

\* a lab result as the vision model writes it
StoreLab(testName, value, unit, status, category) ==
  Obj([EmptyLab EXCEPT !.testName = testName, !.value = value, !.unit = unit,
                       !.status = status, !.category = category])

LdlHigh ==
  StoreLab(Str(<<"L", "D", "L">>), Num(130), Str(<<"m", "g">>), Str(Lit("high")),
           Str(Lit("lipid")))

LdlLowerCase ==
  StoreLab(Str(<<"l", "d", "l">>), Str(<<"9", "5">>), Str(<<"g">>), Str(Lit("normal")),
           Str(Lit("other")))

LdlTrace ==
  StoreLab(Str(<<"L", "d", "l">>), Str(<<"t">>), Undef, Str(Lit("high")), Str(Lit("lipid")))

Hdl ==
  StoreLab(Str(<<"H", "D", "L">>), Num(50), Str(<<"m", "g">>), Str(Lit("normal")),
           Str(Lit("lipid")))

\* a test name that is a number
Numbered == StoreLab(Num(5), Num(1), Undef, Undef, Undef)

June == SampleDate

September == Str(<<"2", "0", "2", "5", "-", "0", "9", "-", "2", "0">>)

December == Str(<<"2", "0", "2", "5", "-", "1", "2", "-", "1", "5">>)

\* the extractions the documents of the store are built from
StoreInputs ==
  {Obj([EmptyParsed EXCEPT !.date = dl[1], !.labResults = Arr(dl[2])]) :
     dl \in {<<June, <<LdlHigh>>>>, <<September, <<LdlLowerCase>>>>,
            <<December, <<LdlHigh, Hdl>>>>, <<June, <<Hdl, LdlLowerCase>>>>,
            <<September, <<LdlTrace>>>>, <<December, <<Numbered>>>>}}

\* addDocument(doc), part_004:397-399, with the document of one extraction
AddDocument ==
  /\ calls < MaxDocs
  /\ \E p \in StoreInputs :
       \E drawn \in {UuidsDrawn(p)}, rec \in {parseExtractionData(p, uuids, clock)} :
         /\ IsReturn(rec)
         /\ documents' = <<Document(Uuid(uuids + drawn), rec, clock)>> \o documents
         /\ uuids' = uuids + drawn + 1
  /\ calls' = calls + 1
  /\ UNCHANGED <<data, outcome, issued, clock, respVars, trends, appVars>>

\* removeDocument(id), part_004:407-409
RemoveDocument ==
  /\ \E i \in 1..Len(documents) :
       LET Other(doc) == doc.id # documents[i].id
       IN documents' = SelectSeq(documents, Other)
  /\ UNCHANGED <<normVars, respVars, trends, appVars>>

\* the size of the largest group of labResultsByTest
LargestGroup(entries) ==
  LET Size(i) == Cardinality({j \in 1..Len(entries) :
                                canonicalKey(entries[j].result.testName)
                                  = canonicalKey(entries[i].result.testName)})
  IN CHOOSE n \in 0..Len(entries) :
       /\ \A i \in 1..Len(entries) : Size(i) <= n
       /\ n = 0 \/ \E i \in 1..Len(entries) : Size(i) = n

\* the orders the engine may leave a group in: one where every comparator is
\* consistent, every order of the positions of a group otherwise
SortOrders(docs) ==
  IF Inconsistent(docs)
  THEN Value(Entries(docs), LAMBDA entries : Permutations(1..LargestGroup(entries)))
  ELSE {<<>>}

\* a call of getLabTrends(): the documents it read and what it returned or threw
GetLabTrends ==
  /\ \E rank \in SortOrders(documents) :
       trends' = [t |-> "call", docs |-> documents, out |-> getLabTrends(documents, rank)]
  /\ UNCHANGED <<normVars, respVars, documents, appVars>>

InitStore ==
  /\ NoResponse
  /\ NoStore
  /\ NoApp
  /\ data = Undef
  /\ clock = Str(<<"2", "0", "2", "6", "-", "0", "1", "-", "0", "5">>)
  /\ outcome = None
  /\ uuids = 0
  /\ issued = <<>>
  /\ calls = 0

NextStore == AddDocument \/ RemoveDocument \/ GetLabTrends

SpecStore == InitStore /\ [][NextStore]_vars

(***************************************************************************)
(* The lab trends of reports that differ in date, letter case, unit,       *)
(* category, reference range and kind of value.                            *)
(***************************************************************************)
\* a lab result as the vision model writes it, with its reference range
RangedLab(testName, value, unit, status, category, range) ==
  Obj([EmptyLab EXCEPT !.testName = testName, !.value = value, !.unit = unit,
                       !.status = status, !.category = category,
                       !.referenceRange = range])

\* a date the vision model could not read
NoDate == Str(<<"n", "/", "a">>)

\* a range that names its upper bound only
UpperBoundOnly == Obj([high |-> Num(200), text |-> Str(<<"<", "2", "0", "0">>)])

\* the extractions of the lab reports
TrendInputs ==
  {Obj([EmptyParsed EXCEPT !.date = dl[1], !.labResults = Arr(dl[2])]) :
     dl \in {<<June, <<RangedLab(Str(<<"L", "D", "L">>), Num(130), Str(<<"m", "g">>),
                                 Str(Lit("high")), Str(Lit("lipid")), Obj(SampleRange))>>>>,
            <<September, <<RangedLab(Str(<<"l", "d", "l">>), Str(<<"9", "5">>), Str(<<"g">>),
                                      Str(Lit("normal")), Str(Lit("other")), UpperBoundOnly)>>>>,
            <<December, <<RangedLab(Str(<<"L", "d", "L">>), Num(118), Str(<<"m", "g">>),
                                     Str(Lit("high")), Str(Lit("lipid")), Undef)>>>>,
            <<NoDate, <<RangedLab(Str(<<"L", "d", "l">>), Num(104), Str(<<"m", "m">>),
                                   Str(Lit("low")), Str(Lit("metabolic")), Undef)>>>>,
            <<September, <<LdlTrace>>>>,
            <<December, <<Hdl, LdlHigh>>>>}}

\* addDocument(doc), part_004:397-399, with the document of one lab report
AddLabReport ==
  /\ Len(documents) < MaxDocs
  /\ \E p \in TrendInputs :
       \E drawn \in {UuidsDrawn(p)}, rec \in {parseExtractionData(p, uuids, clock)} :
         /\ IsReturn(rec)
         /\ documents' = <<Document(Uuid(uuids + drawn), rec, clock)>> \o documents
         /\ uuids' = uuids + drawn + 1
  /\ UNCHANGED <<data, outcome, issued, calls, clock, respVars, trends, appVars>>

NextTrends == AddLabReport \/ GetLabTrends

SpecTrends == InitStore /\ [][NextTrends]_vars

(***************************************************************************)
(* The trend of one test over reports that follow each other in time.      *)
(***************************************************************************)
\* the date of the k-th report: the tenth of the k-th month of 2025
FollowUpDate(k) == Str(<<"2", "0", "2", "5", "-", "0", DigitChars[k + 1], "-", "1", "0">>)

\* the value and status of the test in one report
FollowUpLabs ==
  {RangedLab(Str(<<"L", "D", "L">>), Num(vs[1]), Str(<<"m", "g">>), Str(Lit(vs[2])),
             Str(Lit("lipid")), Undef) :
     vs \in {<<0, "normal">>, <<0, "low">>, <<98, "normal">>, <<100, "high">>, <<118, "high">>,
             <<135, "high">>, <<145, "high">>, <<60, "low">>}}

\* addDocument(doc), part_004:397-399, with the document of the next report,
\* which holds one of labs, while the store holds fewer than most
AddReport(labs, most) ==
  /\ Len(documents) < most
  /\ \E lab \in labs :
       \E p \in {Obj([EmptyParsed EXCEPT !.date = FollowUpDate(Len(documents) + 1),
                                         !.labResults = Arr(<<lab>>)])} :
         \E drawn \in {UuidsDrawn(p)}, rec \in {parseExtractionData(p, uuids, clock)} :
           /\ IsReturn(rec)
           /\ documents' = <<Document(Uuid(uuids + drawn), rec, clock)>> \o documents
           /\ uuids' = uuids + drawn + 1
  /\ UNCHANGED <<data, outcome, issued, calls, clock, respVars, trends, appVars>>

AddFollowUp == AddReport(FollowUpLabs, MaxDocs)

NextFollowUp == AddFollowUp \/ GetLabTrends

SpecFollowUp == InitStore /\ [][NextFollowUp]_vars

\* the value and status of the test in a longer series of reports
SeriesLabs ==
  {RangedLab(Str(<<"L", "D", "L">>), Num(vs[1]), Str(<<"m", "g">>), Str(Lit(vs[2])),
             Str(Lit("lipid")), Undef) :
     vs \in {<<98, "normal">>, <<118, "high">>, <<135, "high">>, <<145, "high">>}}

AddToSeries == AddReport(SeriesLabs, MaxDocs + 1)

NextSeries == AddToSeries \/ GetLabTrends

SpecSeries == InitStore /\ [][NextSeries]_vars

(***************************************************************************)
(* The alerts of a document (lib/medgemma: generateAlerts), as              *)
(* processDocument calls it on the document it has built.                  *)
(***************************************************************************)
RECURSIVE Joined(_)
\* the characters of the strings, one after the other
Joined(strs) == IF Len(strs) = 0 THEN <<>> ELSE Head(strs).s \o Joined(Tail(strs))

\* a template literal: the parts are converted to strings from left to right
\* and joined; a part that cannot be converted throws
Template(parts) ==
  Value([i \in 1..Len(parts) |-> String(parts[i])], LAMBDA strs :
    IF IsThrow(FirstThrow(strs)) THEN FirstThrow(strs) ELSE Str(Joined(strs)))

\* a fixed part of a template literal
Fixed(text) == Str(<<text>>)

\* the alert pushed for a critical result, without its id
criticalAlert(result, now) ==
  Value(Template(<<Fixed("Critical: "), result.testName>>), LAMBDA title :
    IF IsThrow(title) THEN title
    ELSE Value(Template(<<Fixed("Your "), result.testName, Fixed(" level of "),
                          result.value, Fixed(" "), result.unit,
                          Fixed(" requires immediate attention.")>>), LAMBDA message :
           IF IsThrow(message) THEN message
           ELSE [type |-> "critical", title |-> title, message |-> message,
                 relatedLabResult |-> result, createdAt |-> now, dismissed |-> FALSE]))

\* the alert pushed for a high or low result, without its id
warningAlert(result, now) ==
  LET high == result.status = Str(Lit("high"))
  IN Value(Template(<<result.testName,
                      Fixed(" "), Fixed(IF high THEN "Elevated" ELSE "Low")>>), LAMBDA title :
       IF IsThrow(title) THEN title
       ELSE Value(Template(<<Fixed("Your "), result.testName, Fixed(" is "), result.value,
                             Fixed(" "), result.unit, Fixed(", which is "),
                             Fixed(IF high THEN "above" ELSE "below"),
                             Fixed(" normal.")>>), LAMBDA message :
              IF IsThrow(message) THEN message
              ELSE [type |-> "warning", title |-> title, message |-> message,
                    relatedLabResult |-> result, createdAt |-> now, dismissed |-> FALSE]))

\* the body of the forEach callback, medgemma.ts:139-161: the alert pushed for
\* the result, undefined when none is pushed
alertFor(result, now) ==
  IF result.status = Str(Lit("critical")) THEN criticalAlert(result, now)
  ELSE IF result.status = Str(Lit("high")) \/ result.status = Str(Lit("low"))
  THEN warningAlert(result, now)
  ELSE Undef

\* generateAlerts(document), medgemma.ts:135-164: the alerts in the order of the
\* lab results, with ids from uuid0 on, or what the callback threw
generateAlerts(document, uuid0, now) ==
  LET WithIds(pushed) ==
        [k \in 1..Len(pushed) |->
           [id |-> Uuid(uuid0 + k - 1), type |-> pushed[k].type, title |-> pushed[k].title,
            message |-> pushed[k].message, relatedLabResult |-> pushed[k].relatedLabResult,
            createdAt |-> pushed[k].createdAt, dismissed |-> pushed[k].dismissed]]
      IsPushed(x) == x # Undef
      Collected(each) ==
        IF IsThrow(FirstThrow(each)) THEN FirstThrow(each)
        ELSE Arr(WithIds(SelectSeq(each, IsPushed)))
  IN Value(LabResultsOf(document), LAMBDA labResults :
       Value([i \in 1..Len(labResults) |-> alertFor(labResults[i], now)], Collected))

\* the number of uuidv4() calls of generateAlerts(document): one for each alert
\* begun, the one whose text threw included
AlertUuidsDrawn(document, now) ==
  LET Begun(each) ==
        LET stop == IF \E i \in 1..Len(each) : IsThrow(each[i])
                    THEN CHOOSE i \in 1..Len(each) :
                           IsThrow(each[i]) /\ \A j \in 1..(i - 1) : ~IsThrow(each[j])
                    ELSE Len(each)
        IN Cardinality({i \in 1..stop : each[i] # Undef})
  IN Value(LabResultsOf(document), LAMBDA labResults :
       Value([i \in 1..Len(labResults) |-> alertFor(labResults[i], now)], Begun))

\* the lab results of the documents alerts are generated for
AlertLabs ==
  {StoreLab(Str(<<"L", "D", "L">>), value, Str(<<"m", "g">>), status, Str(Lit("lipid"))) :
     value \in {Num(7), Str(<<"t">>)},
     status \in {Str(Lit("critical")), Str(Lit("high")), Str(Lit("low")),
                 Str(Lit("normal")), Str(Lit("unknown")), Undef}}
  \cup {StoreLab(ToStringObject, Num(7), Str(<<"m", "g">>), status, Str(Lit("lipid"))) :
          status \in {Str(Lit("high")), Str(Lit("normal"))}}

\* the extractions of these documents: up to two lab results, or none
AlertInputs ==
  {Obj([EmptyParsed EXCEPT !.date = June, !.labResults = labResults]) :
     labResults \in {Undef} \cup {Arr(<<a>>) : a \in AlertLabs}
                     \cup {Arr(<<a, b>>) : a, b \in AlertLabs}}

\* processDocument, part_009:85-108, without the network: the document of the
\* extraction is built and generateAlerts is called on it
GenerateAlerts ==
  /\ calls < MaxRuns
  /\ \E drawn \in {UuidsDrawn(data)}, rec \in {parseExtractionData(data, uuids, clock)} :
       IF IsReturn(rec)
       THEN \E doc \in {Document(Uuid(uuids + drawn), rec, clock)} :
              /\ outcome' = [t |-> "alerts", document |-> doc,
                             out |-> generateAlerts(doc, uuids + drawn + 1, clock)]
              /\ uuids' = uuids + drawn + 1 + AlertUuidsDrawn(doc, clock)
       ELSE /\ outcome' = rec
            /\ uuids' = uuids + drawn
  /\ calls' = calls + 1
  /\ UNCHANGED <<data, issued, clock, respVars, storeVars, appVars>>

InitAlerts ==
  /\ data \in AlertInputs
  /\ clock = Str(<<"2", "0", "2", "6", "-", "0", "1", "-", "0", "5">>)
  /\ outcome = None
  /\ uuids = 0
  /\ issued = <<>>
  /\ calls = 0
  /\ NoResponse
  /\ NoStore
  /\ NoApp

NextAlerts == GenerateAlerts

SpecAlerts == InitAlerts /\ [][NextAlerts]_vars

(***************************************************************************)
(* The enumerations of types/medical.ts.                                   *)
(***************************************************************************)
LabStatus ==
  {Str(Lit("normal")), Str(Lit("low")), Str(Lit("high")), Str(Lit("critical")),
   Str(Lit("unknown"))}

LabCategory ==
  {Str(Lit("metabolic")), Str(Lit("lipid")), Str(Lit("cbc")), Str(Lit("thyroid")),
   Str(Lit("liver")), Str(Lit("kidney")), Str(Lit("cardiac")), Str(Lit("inflammatory")),
   Str(Lit("vitamin")), Str(Lit("hormone")), Str(Lit("other"))}

DocumentType ==
  {Str(Lit("lab_report")), Str(Lit("discharge_summary")), Str(Lit("imaging")),
   Str(Lit("prescription")), Str(Lit("other"))}

(***************************************************************************)
(* Properties of the normalizer.                                           *)
(***************************************************************************)
\* the i-th element of the input's labResults, for a call that returned
LabIn(i) == Get(data, "labResults").a[i]

LabOut(i) == LabsOf(outcome)[i]

\* the value if it is one of the members, else the fallback
MemberOr(x, members, fallback) == IF x \in members THEN x ELSE fallback

\* C1: every normalized lab result has a status among normal, low, high,
\* critical, unknown and a category among the 11 categories, and the record a
\* documentType among the 5 document types; a value that is exactly a member
\* passes unchanged and every other value becomes unknown / other / other.
C1_EnumClosure ==
  IsReturn(outcome) =>
    /\ outcome.documentType \in DocumentType
    /\ outcome.documentType =
         MemberOr(Get(data, "documentType"), DocumentType, Str(Lit("other")))
    /\ \A i \in 1..Len(LabsOf(outcome)) :
         /\ LabOut(i).status \in LabStatus
         /\ LabOut(i).category \in LabCategory
         /\ LabOut(i).status = MemberOr(Get(LabIn(i), "status"), LabStatus, Str(Lit("unknown")))
         /\ LabOut(i).category =
              MemberOr(Get(LabIn(i), "category"), LabCategory, Str(Lit("other")))

\* a status in another case became unknown, and a member category passed
C1_Witness ==
  /\ IsReturn(outcome)
  /\ \E i \in 1..Len(LabsOf(outcome)) :
       /\ Get(LabIn(i), "status") = Str(ToUpperCase(Lit("high")))
       /\ LabOut(i).status = Str(Lit("unknown"))
       /\ LabOut(i).category = Str(Lit("lipid"))

\* the input's lab objects
LabObjectsIn ==
  IF data.t = "object" /\ Get(data, "labResults").t = "array"
  THEN {i \in 1..Len(Get(data, "labResults").a) : LabIn(i).t = "object"}
  ELSE {}

\* what the value rule asks for: a number as it is, a string by its numeric
\* prefix when it has one, else the same string
ValueRule(v, out) ==
  /\ TypeOf(v) = "number" => out = v
  /\ TypeOf(v) = "string" /\ ~IsNaN(ParseFloatChars(v.s)) => out = ParseFloatChars(v.s)
  /\ TypeOf(v) = "string" /\ IsNaN(ParseFloatChars(v.s)) => out = v

\* C2: parseLabValue returns a number unchanged, a string with a numeric prefix
\* as that number, a string without one verbatim, and raises on no input value.
C2_LabValueNeverRaises ==
  calls = 1 =>
    \A i \in LabObjectsIn :
      /\ ~IsThrow(parseLabValue(Get(LabIn(i), "value")))
      /\ IsReturn(outcome) => ValueRule(Get(LabIn(i), "value"), LabOut(i).value)

\* the bound of the output range
BoundOut(i, b) == LabOut(i).referenceRange.o[b]

BoundIn(i, b) == Get(Get(LabIn(i), "referenceRange"), b)

\* C3: in a normalized lab result with a referenceRange, low (high) is absent
\* exactly when the numeric parse of the input bound fails, and a bound that
\* parses to a number is present with that number.
C3_BoundKept ==
  IsReturn(outcome) =>
    \A i \in 1..Len(LabsOf(outcome)) : \A b \in {"low", "high"} :
      LabOut(i).referenceRange # Undef =>
        /\ BoundOut(i, b) = Undef <=> IsNaN(ParseFloat(BoundIn(i, b)))
        /\ ~IsNaN(ParseFloat(BoundIn(i, b))) => BoundOut(i, b) = ParseFloat(BoundIn(i, b))

ArrayKeys == {"labResults", "medications", "diagnoses", "recommendations"}

\* C4: labResults, medications, diagnoses and recommendations each hold an
\* empty sequence in the normalized record when the input has no such key.
C4_AbsentArrayIsEmpty ==
  IsReturn(outcome) =>
    \A k \in ArrayKeys :
      Get(data, k) = Undef => outcome.extractedData.structuredData[k] = Arr(<<>>)

\* an object without medications was normalized
C4_Witness ==
  /\ IsReturn(outcome)
  /\ data.t = "object"
  /\ Get(data, "medications") = Undef
  /\ Get(data, "title") # Undef
  /\ outcome.extractedData.structuredData.medications = Arr(<<>>)

\* C5: every lab result's id is one uuidv4() returned, and the ids of all lab
\* results of all normalizations are pairwise distinct: an id of the input is
\* never used.
C5_FreshIds ==
  /\ \A i \in 1..Len(issued) : \E n \in 0..(uuids - 1) : issued[i] = Uuid(n)
  /\ \A i, j \in 1..Len(issued) : i # j => issued[i] # issued[j]
  /\ IsReturn(outcome) =>
       \A i \in 1..Len(LabsOf(outcome)) :
         LabOut(i).id = issued[Len(issued) - Len(LabsOf(outcome)) + i]

\* the same input, with an id of its own, was normalized twice
C5_Witness ==
  /\ calls = 2
  /\ IsReturn(outcome)
  /\ Len(issued) = 2
  /\ Len(LabsOf(outcome)) = 1
  /\ Get(LabIn(1), "id") = InputId

\* C8: for every input that is a JSON object normalization returns a record
\* and raises no error.
C8_ObjectNeverRaises == calls = 1 /\ data.t = "object" => IsReturn(outcome)

(***************************************************************************)
(* Properties of the response parser.                                      *)
(***************************************************************************)
\* the text after trim, the three fence tests and trim
FenceStripped(text) == Trim(StripFences(Trim(text)))

\* where the first opening brace and the last closing brace of a text are
FirstOpen(text) == CHOOSE i \in 1..Len(text) : text[i] = LBRACE /\ \A k \in 1..(i - 1) : text[k] # LBRACE

LastClose(text) ==
  CHOOSE j \in 1..Len(text) : text[j] = RBRACE /\ \A k \in (j + 1)..Len(text) : text[k] # RBRACE

\* there is a text from an opening brace to a closing brace after it
HasBraces(text) == \E i, j \in 1..Len(text) : i < j /\ text[i] = LBRACE /\ text[j] = RBRACE

\* no JSON value can be recovered: the fence-stripped text does not parse, and
\* there is no brace-to-brace span or the outermost one does not parse
NothingRecoverable(text) ==
  /\ IsThrow(JsonParse(FenceStripped(text)))
  /\ \/ ~HasBraces(text)
     \/ IsThrow(JsonParse(SubSeq(text, FirstOpen(text), LastClose(text))))

\* the one failure of a text that cannot be read
MalformedExtraction ==
  {Throw("Error", "Could not parse JSON from response"),
   Throw("Error", "Could not parse response")}

\* C6: when no JSON can be recovered from the response text, with or without a
\* brace-to-brace span in it, the parser fails with the one failure it raises
\* itself for a text it cannot read, and returns nothing.
C6_SingleFailureKind ==
  ran \in {"parseExtractionResponse", "handleExtraction"} /\ NothingRecoverable(reply) =>
    outcome \in MalformedExtraction

\* u is the text of a JSON object, from its opening to its closing brace
IsObjectText(u) ==
  /\ Len(u) >= 2
  /\ u[1] = LBRACE
  /\ u[Len(u)] = RBRACE
  /\ JsonParse(u).t = "object"

\* every piece of the text is a fence, the word json, a line break or prose
IsWrapping(w) == \A k \in 1..Len(w) : w[k] \in WrapPieces

\* C7: a response that is a JSON object text inside fences, the word json, line
\* breaks or prose yields what the object text alone yields under the same run of
\* identifiers, and a text that does not parse as it is yields what its span
\* from the first opening brace to the last closing brace yields.
C7_WrappedSameAsUnwrapped ==
  ran = "parseExtractionResponse" =>
    /\ \A i, j \in 1..Len(reply) :
         (/\ i < j
          /\ IsObjectText(SubSeq(reply, i, j))
          /\ IsWrapping(SubSeq(reply, 1, i - 1))
          /\ IsWrapping(SubSeq(reply, j + 1, Len(reply))))
         => outcome = parseExtractionResponse(SubSeq(reply, i, j), 0, clock)
    /\ IsThrow(JsonParse(FenceStripped(reply))) /\ HasBraces(reply) =>
         LET p == JsonParse(SubSeq(reply, FirstOpen(reply), LastClose(reply)))
         IN outcome = IF IsThrow(p) THEN p ELSE parseExtractionData(p, 0, clock)

\* a fenced object with a lab result in it was read, after prose
C7_Witness ==
  /\ ran = "parseExtractionResponse"
  /\ reply = <<PROSE, NEWLINE, FENCE, JSONWORD, NEWLINE,
               LBRACE, LABSOPEN, LBRACE, STATUS, RBRACE, CLOSE, RBRACE,
               NEWLINE, FENCE>>
  /\ IsReturn(outcome)
  /\ Len(LabsOf(outcome)) = 1
  /\ LabsOf(outcome)[1].id = Uuid(0)

(***************************************************************************)
(* Properties of extractDocumentData.                                      *)
(***************************************************************************)
\* the extraction was tried and failed: the request or the parse of the answer
\* or its normalization threw, or the route answered with an error
ExtractionFailed ==
  \/ /\ ran = "extractDocumentDataLocal"
     /\ UsesRealAPI(config)
     /\ IsThrow(realExtraction(config, apiResult, reply, 0, clock))
  \/ /\ ran = "extractDocumentData"
     /\ \/ POST(config, apiResult, reply).status # 200
        \/ IsThrow(parseExtractionData(POST(config, apiResult, reply).body.data, 0, clock))

\* C9: when the extraction or its normalization fails, extractDocumentData
\* throws to its caller: it returns no demo data and no other record.
C9_FailureReported == ExtractionFailed => IsThrow(outcome)

(***************************************************************************)
(* Properties of the lab trends.                                           *)
(***************************************************************************)
\* the lower-cased name of an observation or a trend
LowerName(x) == ToLowerCase(x.testName.s)

\* the observations the last call of getLabTrends read
Observed == Entries(trends.docs)

\* the last call of getLabTrends returned a list of trends
TrendsReturned == trends.t = "call" /\ ~IsThrow(trends.out)

\* C10: getLabTrends returns at most one trend per lower-cased testName; every
\* observation with a number as its value lies in the trend of its lower-cased
\* name, whatever its letter case, unit and category, and every data point of a
\* trend comes from an observation with the trend's lower-cased name.
C10_OneTrendPerKey ==
  TrendsReturned =>
    LET T == trends.out.a
    IN /\ \A i, j \in 1..Len(T) : i # j => LowerName(T[i]) # LowerName(T[j])
       /\ \A n \in 1..Len(Observed) :
            TypeOf(Observed[n].result.value) = "number" =>
              \E i \in 1..Len(T) :
                /\ LowerName(T[i]) = LowerName(Observed[n].result)
                /\ \E k \in 1..Len(T[i].dataPoints) :
                     /\ T[i].dataPoints[k].date = Observed[n].date
                     /\ T[i].dataPoints[k].value = Observed[n].result.value
       /\ \A i \in 1..Len(T) :
            /\ Len(T[i].dataPoints)
                 <= Cardinality({n \in 1..Len(Observed) :
                                   LowerName(Observed[n].result) = LowerName(T[i])})
            /\ \A k \in 1..Len(T[i].dataPoints) :
                 \E n \in 1..Len(Observed) :
                   /\ LowerName(Observed[n].result) = LowerName(T[i])
                   /\ Observed[n].date = T[i].dataPoints[k].date
                   /\ Observed[n].result.status = T[i].dataPoints[k].status

\* observations named LDL and ldl, with different units and categories, were
\* merged into one trend beside the trend of HDL
C10_Witness ==
  /\ TrendsReturned
  /\ Len(trends.out.a) = 2
  /\ \E i \in 1..2 :
       /\ Len(trends.out.a[i].dataPoints) >= 2
       /\ \E m, n \in 1..Len(Observed) :
            /\ Observed[m].result.testName # Observed[n].result.testName
            /\ Observed[m].result.unit # Observed[n].result.unit
            /\ Observed[m].result.category # Observed[n].result.category
            /\ LowerName(Observed[m].result) = LowerName(trends.out.a[i])
            /\ LowerName(Observed[n].result) = LowerName(trends.out.a[i])

\* the observations of the group of the trend: those with its lower-cased name
GroupOf(trend) == {n \in 1..Len(Observed) : LowerName(Observed[n].result) = LowerName(trend)}

\* the document of the observation has a date
Dated(n) == ~IsNaN(getTime(Observed[n].date))

\* no dated observation of the group is earlier than the n-th observation
Earliest(n, group) ==
  \A m \in group : Dated(m) => Dated(n) /\ getTime(Observed[n].date).n <= getTime(Observed[m].date).n

\* C11: the testName, unit and category of every trend are those of an
\* observation of its group whose document has the earliest date, in whatever
\* order the documents were added.
C11_EarliestNames ==
  TrendsReturned =>
    \A i \in 1..Len(trends.out.a) :
      \E n \in GroupOf(trends.out.a[i]) :
        /\ Earliest(n, GroupOf(trends.out.a[i]))
        /\ trends.out.a[i].testName = Observed[n].result.testName
        /\ trends.out.a[i].unit = Observed[n].result.unit
        /\ trends.out.a[i].category = Observed[n].result.category

\* the time of the k-th data point of the trend, NaN when its date is no date
PointTime(trend, k) == getTime(trend.dataPoints[k].date)

\* C12: in every trend the data points are in ascending order of date: no data
\* point has a date later than the date of a data point after it.
C12_AscendingDates ==
  TrendsReturned =>
    \A i \in 1..Len(trends.out.a) :
      \A k, l \in 1..Len(trends.out.a[i].dataPoints) :
        (/\ k < l
         /\ ~IsNaN(PointTime(trends.out.a[i], k))
         /\ ~IsNaN(PointTime(trends.out.a[i], l)))
          => PointTime(trends.out.a[i], k).n <= PointTime(trends.out.a[i], l).n

\* the value of the observation is a number or parses to one
Numeric(n) ==
  \/ TypeOf(Observed[n].result.value) = "number" /\ ~IsNaN(Observed[n].result.value)
  \/ /\ TypeOf(Observed[n].result.value) = "string"
     /\ ~IsNaN(ParseFloat(Observed[n].result.value))

\* the number the value of a numeric observation stands for
NumberOf(n) ==
  IF TypeOf(Observed[n].result.value) = "number" THEN Observed[n].result.value
  ELSE ParseFloat(Observed[n].result.value)

\* C13: the data points of a trend are, one for one, the numeric observations of
\* its group; an observation with a value that is no number (as "trace") adds no
\* data point.
C13_NumericPointsOnly ==
  TrendsReturned =>
    \A i \in 1..Len(trends.out.a) :
      /\ Len(trends.out.a[i].dataPoints)
           = Cardinality({n \in GroupOf(trends.out.a[i]) : Numeric(n)})
      /\ \A k \in 1..Len(trends.out.a[i].dataPoints) :
           \E n \in GroupOf(trends.out.a[i]) :
             /\ Numeric(n)
             /\ trends.out.a[i].dataPoints[k].date = Observed[n].date
             /\ trends.out.a[i].dataPoints[k].value = NumberOf(n)

\* C14: a group without a numeric observation has no trend, and every trend has
\* at least one data point.
C14_NoTrendWithoutNumbers ==
  TrendsReturned =>
    /\ \A i \in 1..Len(trends.out.a) :
         /\ Len(trends.out.a[i].dataPoints) >= 1
         /\ \E n \in GroupOf(trends.out.a[i]) : Numeric(n)
    /\ \A m \in 1..Len(Observed) :
         (\A n \in 1..Len(Observed) :
            LowerName(Observed[n].result) = LowerName(Observed[m].result) => ~Numeric(n))
           => \A i \in 1..Len(trends.out.a) :
                LowerName(trends.out.a[i]) # LowerName(Observed[m].result)

\* C16: a group with exactly one numeric observation has a trend with one data
\* point and currentStatus unknown, and currentStatus is unknown for no trend
\* with another number of data points.
C16_SinglePointUnknown ==
  TrendsReturned =>
    /\ \A m \in 1..Len(Observed) :
         Cardinality({n \in 1..Len(Observed) :
                        /\ LowerName(Observed[n].result) = LowerName(Observed[m].result)
                        /\ Numeric(n)}) = 1
           => \E i \in 1..Len(trends.out.a) :
                /\ LowerName(trends.out.a[i]) = LowerName(Observed[m].result)
                /\ Len(trends.out.a[i].dataPoints) = 1
                /\ trends.out.a[i].currentStatus = "unknown"
    /\ \A i \in 1..Len(trends.out.a) :
         trends.out.a[i].currentStatus = "unknown" => Len(trends.out.a[i].dataPoints) = 1

\* the range of the trend is the range of the observation: absent when that is
\* absent, and with the bounds of that, a missing bound staying missing
RangeCopied(trend, observation) ==
  IF ~Truthy(observation.referenceRange) THEN trend.referenceRange = Undef
  ELSE /\ trend.referenceRange.t = "object"
       /\ Get(trend.referenceRange, "low") = Get(observation.referenceRange, "low")
       /\ Get(trend.referenceRange, "high") = Get(observation.referenceRange, "high")

\* C19: the referenceRange of a trend is present exactly when the earliest
\* observation of its group has one, and its low and high are the bounds of that
\* observation; no number stands in for a bound the observation does not have.
C19_RangeOfFirst ==
  TrendsReturned =>
    \A i \in 1..Len(trends.out.a) :
      \E n \in GroupOf(trends.out.a[i]) :
        /\ Earliest(n, GroupOf(trends.out.a[i]))
        /\ RangeCopied(trends.out.a[i], Observed[n].result)

(***************************************************************************)
(* Properties of the trend direction.                                      *)
(***************************************************************************)
\* the last and the second-to-last data point of a trend with two or more
Recent(trend) == trend.dataPoints[Len(trend.dataPoints)]

Previous(trend) == trend.dataPoints[Len(trend.dataPoints) - 1]

Diff(trend) == Recent(trend).value.n - Previous(trend).value.n

\* the absolute change is at most 5% of the absolute previous value
WithinBand(trend) == 20 * Abs(Diff(trend)) <= Abs(Previous(trend).value.n)

IsStatus(x, word) == x = Str(Lit(word))

\* the rules after the band, in their order
ByStatus(trend, first) ==
  IF IsStatus(Recent(trend).status, "normal") /\ ~IsStatus(Previous(trend).status, "normal")
  THEN "improving"
  ELSE IF ~IsStatus(Recent(trend).status, "normal") /\ IsStatus(Previous(trend).status, "normal")
  THEN "worsening"
  ELSE IF Diff(trend) > 0 /\ IsStatus(first, "high") THEN "worsening"
  ELSE IF Diff(trend) < 0 /\ IsStatus(first, "low") THEN "worsening"
  ELSE "stable"

\* C15: for every trend with two or more data points currentStatus is the
\* result of the first rule that matches: within the band, stable; recent normal
\* and previous not, improving; recent not normal and previous normal,
\* worsening; rising and the group's first observation high, worsening; falling
\* and the first observation low, worsening; otherwise stable.
C15_FirstMatchingRule ==
  TrendsReturned =>
    \A i \in 1..Len(trends.out.a) :
      Len(trends.out.a[i].dataPoints) >= 2 =>
        \E n \in GroupOf(trends.out.a[i]) :
          /\ Earliest(n, GroupOf(trends.out.a[i]))
          /\ trends.out.a[i].currentStatus
               = IF WithinBand(trends.out.a[i]) THEN "stable"
                 ELSE ByStatus(trends.out.a[i], Observed[n].result.status)

\* a value that fell outside the band on a high baseline and stayed high: the
\* trend is stable, not improving
C15_Witness ==
  /\ TrendsReturned
  /\ \E i \in 1..Len(trends.out.a) :
       /\ Len(trends.out.a[i].dataPoints) = 3
       /\ ~WithinBand(trends.out.a[i])
       /\ Diff(trends.out.a[i]) < 0
       /\ \A k \in 1..3 : IsStatus(trends.out.a[i].dataPoints[k].status, "high")
       /\ trends.out.a[i].currentStatus = "stable"

\* C17: a trend with two or more data points whose last change is within the
\* band is stable, whatever the statuses of the two points and of the first
\* observation; after a previous value of 0 a changed value is outside the band:
\* a status that left normal gives worsening, one that became normal improving.
C17_BandIsStable ==
  TrendsReturned =>
    \A i \in 1..Len(trends.out.a) :
      Len(trends.out.a[i].dataPoints) >= 2 =>
        /\ WithinBand(trends.out.a[i]) => trends.out.a[i].currentStatus = "stable"
        /\ (/\ Previous(trends.out.a[i]).value.n = 0
            /\ Diff(trends.out.a[i]) # 0
            /\ IsStatus(Previous(trends.out.a[i]).status, "normal")
            /\ ~IsStatus(Recent(trends.out.a[i]).status, "normal"))
             => trends.out.a[i].currentStatus = "worsening"
        /\ (/\ Previous(trends.out.a[i]).value.n = 0
            /\ Diff(trends.out.a[i]) # 0
            /\ ~IsStatus(Previous(trends.out.a[i]).status, "normal")
            /\ IsStatus(Recent(trends.out.a[i]).status, "normal"))
             => trends.out.a[i].currentStatus = "improving"

\* 98 with status normal, then 100 with status high: stable
C17_Witness ==
  /\ TrendsReturned
  /\ \E i \in 1..Len(trends.out.a) :
       /\ Len(trends.out.a[i].dataPoints) >= 2
       /\ Previous(trends.out.a[i]).value = Num(98)
       /\ Recent(trends.out.a[i]).value = Num(100)
       /\ IsStatus(Previous(trends.out.a[i]).status, "normal")
       /\ IsStatus(Recent(trends.out.a[i]).status, "high")
       /\ trends.out.a[i].currentStatus = "stable"

\* the documents with the n-th observation replaced by Changed of it
WithObservation(docs, n, Changed(_)) ==
  LET Before(d) == Sum([e \in 1..(d - 1) |-> Len(LabResultsOf(docs[e]))])
  IN [d \in 1..Len(docs) |->
        [docs[d] EXCEPT !.extractedData.structuredData.labResults =
           Arr([j \in 1..Len(LabResultsOf(docs[d])) |->
                  IF Before(d) + j = n THEN Changed(LabResultsOf(docs[d])[j])
                  ELSE LabResultsOf(docs[d])[j]])]]

\* the currentStatus getLabTrends gives the group named key over docs
StatusOver(docs, key) ==
  LET out == getLabTrends(docs, <<>>).a
  IN {out[i].currentStatus : i \in {j \in 1..Len(out) : LowerName(out[j]) = key}}

\* the observation is dated before two or more observations of the group
BeforeLastTwo(n, group) ==
  Cardinality({m \in group : getTime(Observed[m].date).n > getTime(Observed[n].date).n}) >= 2

\* values and statuses to put in the place of those of an observation
OtherValues == {Num(1), Num(1000)}

OtherStatuses == {Str(Lit("normal")), Str(Lit("high")), Str(Lit("low"))}

\* three or more numeric observations on dates that all differ
ThreeOrMoreDates(group) ==
  /\ Cardinality(group) >= 3
  /\ \A n \in group : Numeric(n) /\ Dated(n)
  /\ \A m, n \in group : m # n => getTime(Observed[m].date) # getTime(Observed[n].date)

\* C18: the trend of a group with three or more numeric observations on
\* different dates holds all of them in the order of their dates, and its
\* currentStatus depends on the last two data points and the status of the
\* earliest observation only: another value in an observation before the last
\* two, or another status in one of them that is not the earliest, leaves it
\* as it is.
C18_LastTwoAndFirst ==
  TrendsReturned =>
    \A i \in 1..Len(trends.out.a) :
      ThreeOrMoreDates(GroupOf(trends.out.a[i])) =>
        /\ Len(trends.out.a[i].dataPoints) = Cardinality(GroupOf(trends.out.a[i]))
        /\ \A k, l \in 1..Len(trends.out.a[i].dataPoints) :
             k < l => PointTime(trends.out.a[i], k).n < PointTime(trends.out.a[i], l).n
        /\ \A n \in GroupOf(trends.out.a[i]) :
             \E k \in 1..Len(trends.out.a[i].dataPoints) :
               /\ trends.out.a[i].dataPoints[k].date = Observed[n].date
               /\ trends.out.a[i].dataPoints[k].value = NumberOf(n)
               /\ trends.out.a[i].dataPoints[k].status = Observed[n].result.status
        /\ \A n \in GroupOf(trends.out.a[i]) :
             BeforeLastTwo(n, GroupOf(trends.out.a[i])) =>
               /\ \A v \in OtherValues :
                    StatusOver(WithObservation(trends.docs, n,
                                               LAMBDA lab : [lab EXCEPT !.value = v]),
                               LowerName(trends.out.a[i]))
                      = {trends.out.a[i].currentStatus}
               /\ \A w \in OtherStatuses :
                    ~Earliest(n, GroupOf(trends.out.a[i])) =>
                      StatusOver(WithObservation(trends.docs, n,
                                                 LAMBDA lab : [lab EXCEPT !.status = w]),
                                 LowerName(trends.out.a[i]))
                        = {trends.out.a[i].currentStatus}

\* 145, 118 and 135 on three dates, all high: three data points in that order
\* and worsening
C18_Witness ==
  /\ TrendsReturned
  /\ \E i \in 1..Len(trends.out.a) :
       /\ ThreeOrMoreDates(GroupOf(trends.out.a[i]))
       /\ [k \in 1..Len(trends.out.a[i].dataPoints) |-> trends.out.a[i].dataPoints[k].value]
            = <<Num(145), Num(118), Num(135)>>
       /\ \A k \in 1..3 : IsStatus(trends.out.a[i].dataPoints[k].status, "high")
       /\ trends.out.a[i].currentStatus = "worsening"

(***************************************************************************)
(* Properties of the alerts.                                               *)
(***************************************************************************)
\* the lab results of the document whose status is critical, high or low, in
\* their order
Abnormal(document) ==
  LET IsAbnormal(result) ==
        result.status \in {Str(Lit("critical")), Str(Lit("high")), Str(Lit("low"))}
  IN SelectSeq(LabResultsOf(document), IsAbnormal)

\* C20: generateAlerts(document) returns one alert for each lab result of the
\* document whose status is critical, high or low, in their order, and no other:
\* of type critical for critical and warning for high and low, with that lab
\* result as relatedLabResult and dismissed false, whatever the value is.
C20_AlertPerAbnormalResult ==
  outcome.t = "alerts" =>
    /\ ~IsThrow(outcome.out)
    /\ Len(outcome.out.a) = Len(Abnormal(outcome.document))
    /\ \A k \in 1..Len(outcome.out.a) :
         /\ outcome.out.a[k].relatedLabResult = Abnormal(outcome.document)[k]
         /\ outcome.out.a[k].type
              = IF Abnormal(outcome.document)[k].status = Str(Lit("critical"))
                THEN "critical" ELSE "warning"
         /\ outcome.out.a[k].dismissed = FALSE

(***************************************************************************)
(* The actions of the store on documents, alerts and the processing flag   *)
(* (lib/store), and the timeline it derives.                               *)
(***************************************************************************)
\* { ...doc, ...updates }: the fields of updates over those of doc
Spread(doc, updates) ==
  [f \in DOMAIN doc \cup DOMAIN updates |->
     IF f \in DOMAIN updates THEN updates[f] ELSE doc[f]]

\* addDocument(doc), part_004:397-399
addDocument(docs, doc) == <<doc>> \o docs

\* updateDocument(id, updates), part_004:401-405, at the time now
updateDocument(docs, id, updates, now) ==
  [i \in 1..Len(docs) |->
     IF docs[i].id = id THEN Spread(Spread(docs[i], updates), [updatedAt |-> now])
     ELSE docs[i]]

\* removeDocument(id), part_004:407-409
removeDocument(docs, id) ==
  LET Other(doc) == doc.id # id
  IN SelectSeq(docs, Other)

\* addAlert(alert), part_004:411-413
addAlert(stored, alert) == <<alert>> \o stored

\* a mutant of addAlerts: an alert on a lab result of the same name and
\* status as one that is stored is left out
addAlertsOnce(stored, new) ==
  LET Known(alert) ==
        \E i \in 1..Len(stored) : /\ stored[i].title = alert.title
                                  /\ stored[i].message = alert.message
      IsNew(alert) == ~Known(alert)
  IN SelectSeq(new, IsNew) \o stored

\* addAlerts(alerts), part_004:415-417
addAlerts(stored, new) == new \o stored

\* a mutant of dismissAlert: the alerts on the same lab test are dismissed too
dismissAlertOfTest(stored, id) ==
  LET SameTest(alert) ==
        \E i \in 1..Len(stored) : stored[i].id = id /\ stored[i].title = alert.title
  IN [i \in 1..Len(stored) |->
        IF SameTest(stored[i]) THEN Spread(stored[i], [dismissed |-> TRUE]) ELSE stored[i]]

\* dismissAlert(id), part_004:419-423
dismissAlert(stored, id) ==
  [i \in 1..Len(stored) |->
     IF stored[i].id = id THEN Spread(stored[i], [dismissed |-> TRUE]) ELSE stored[i]]

\* setProcessing(status), part_004:425
setProcessing(status) == status

\* the comparator of the sort of getTimeline: the later date first, and 0 when
\* a time is NaN
CompareLatestFirst(a, b) == CompareDates(b, a)

\* e after the entries that do not compare greater under CompareLatestFirst
InsertLatestFirst(sorted, e) ==
  LET pos == Cardinality({i \in 1..Len(sorted) : CompareLatestFirst(sorted[i], e) <= 0})
  IN SubSeq(sorted, 1, pos) \o <<e>> \o SubSeq(sorted, pos + 1, Len(sorted))

RECURSIVE SortLatestFirst(_, _)
\* array.sort((a, b) => new Date(b.date) - new Date(a.date)): stable
SortLatestFirst(items, sorted) ==
  LET Rest(next) == SortLatestFirst(Tail(items), next)
  IN IF Len(items) = 0 THEN sorted
     ELSE Value(InsertLatestFirst(sorted, Head(items)), Rest)

\* the sort of getTimeline, part_004:549: the order of rank where the
\* comparator is inconsistent
sortLatestFirst(items, rank) ==
  IF Inconsistent(items) THEN PermuteBy(items, rank) ELSE SortLatestFirst(items, <<>>)

\* labResults.filter(r => r.status !== 'normal')
NotNormal(labResults) ==
  LET Differs(r) == r.status # Str(Lit("normal"))
  IN SelectSeq(labResults, Differs)

\* the first three elements: slice(0, 3)
FirstThree(items) == SubSeq(items, 1, IF Len(items) < 3 THEN Len(items) ELSE 3)

\* summary and highlights of a lab report, part_004:516-525, or what a
\* template literal threw
labReportSummary(doc) ==
  LET labResults == LabResultsOf(doc)
      abnormal == NotNormal(labResults)
      Highlight(r) == Template(<<r.testName, Fixed(": "), r.value, Fixed(" "), r.unit>>)
      Summary == IF Len(abnormal) > 0
                 THEN Template(<<Num(Len(labResults)), Fixed(" tests performed"),
                                 Fixed(", "), Num(Len(abnormal)), Fixed(" abnormal")>>)
                 ELSE Template(<<Num(Len(labResults)), Fixed(" tests performed")>>)
  IN Value([i \in 1..Len(FirstThree(abnormal)) |-> Highlight(FirstThree(abnormal)[i])],
           LAMBDA highlights :
             IF IsThrow(FirstThrow(highlights)) THEN FirstThrow(highlights)
             ELSE [summary |-> Summary, highlights |-> highlights])

\* summary and highlights of a document, the switch of part_004:515-537; the
\* documents of the model hold no imaging findings and no medications
summaryOf(doc) ==
  IF doc.type = Str(Lit("lab_report")) THEN labReportSummary(doc)
  ELSE IF doc.type = Str(Lit("imaging"))
  THEN [summary |-> Fixed("Imaging study"), highlights |-> <<>>]
  ELSE IF doc.type = Str(Lit("prescription"))
  THEN [summary |-> Fixed("0 medication(s) prescribed"), highlights |-> <<>>]
  ELSE [summary |-> doc.title, highlights |-> <<>>]

\* the entry the callback of map returns for a document, part_004:508-548
timelineEntry(doc) ==
  Value(summaryOf(doc), LAMBDA text :
    IF IsThrow(text) THEN text
    ELSE [id |-> doc.id, documentId |-> doc.id, date |-> doc.date, type |-> doc.type,
          title |-> doc.title, summary |-> text.summary, highlights |-> text.highlights])

\* a mutant of timelineCall: the sort is applied to the array of the store
\* before the entries are mapped from it
timelineCallSortingStore(docs, rank) ==
  Value(sortLatestFirst(docs, rank), LAMBDA sorted :
    Value([i \in 1..Len(sorted) |-> timelineEntry(sorted[i])], LAMBDA entries :
      [out |-> IF IsThrow(FirstThrow(entries)) THEN FirstThrow(entries) ELSE Arr(entries),
       documents |-> sorted]))

\* getTimeline(), part_004:504-550: what it returns or throws, and the array
\* of the store after it.  map returns a new array and leaves its receiver;
\* sort orders its receiver in place, and the receiver is the array map returned
timelineCall(docs, rank) ==
  Value([i \in 1..Len(docs) |-> timelineEntry(docs[i])], LAMBDA entries :
    [out |-> IF IsThrow(FirstThrow(entries)) THEN FirstThrow(entries)
             ELSE Arr(sortLatestFirst(entries, rank)),
     documents |-> docs])

\* the orders the engine may leave the timeline in
TimelineOrders(docs) ==
  IF Inconsistent(docs) THEN Permutations(1..Len(docs)) ELSE {<<>>}

LdlCritical ==
  StoreLab(Str(<<"L", "D", "L">>), Num(190), Str(<<"m", "g">>), Str(Lit("critical")),
           Str(Lit("lipid")))

HdlLow ==
  StoreLab(Str(<<"H", "D", "L">>), Num(30), Str(<<"m", "g">>), Str(Lit("low")),
           Str(Lit("lipid")))

\* the extraction behind the k-th document the store actions add: a document
\* of September with a critical result, then a lab report of June with a high
\* and a low result, and that lab report again
OpsInput(k) ==
  IF k = 1
  THEN Obj([EmptyParsed EXCEPT !.date = September, !.labResults = Arr(<<LdlCritical>>)])
  ELSE Obj([EmptyParsed EXCEPT !.date = June, !.documentType = Str(Lit("lab_report")),
                               !.labResults = Arr(<<LdlHigh, HdlLow>>)])

\* how many alerts the store operations add
MaxAlerts == MaxRuns

\* how many identifiers the calls draw
MaxUuids == 2 * MaxRuns + 2

\* the updates of updateDocument: the voice notes
DocumentUpdates == {[voiceNotes |-> <<[id |-> Str(<<"n">>)]>>]}

\* addDocument(doc), part_004:397-399, with the document of an extraction
StoreDocument ==
  /\ calls < MaxRuns
  /\ \E p \in {OpsInput(calls + 1)} :
       \E drawn \in {UuidsDrawn(p)}, rec \in {parseExtractionData(p, uuids, clock)} :
         /\ IsReturn(rec)
         /\ documents' = addDocument(documents, Document(Uuid(uuids + drawn), rec, clock))
         /\ uuids' = uuids + drawn + 1
  /\ calls' = calls + 1
  /\ UNCHANGED <<data, outcome, issued, clock, respVars, trends, appVars>>

\* updateDocument(id, updates) on a stored document
UpdateDocument ==
  /\ \E i \in 1..Len(documents), updates \in DocumentUpdates :
       documents' = updateDocument(documents, documents[i].id, updates, clock)
  /\ UNCHANGED <<normVars, respVars, trends, appVars>>

\* addAlert(alert) with the first alert generated for a stored document
AddAlert ==
  /\ Len(alerts) < MaxAlerts
  /\ \E i \in 1..Len(documents) :
       \E made \in {generateAlerts(documents[i], uuids, clock)} :
         /\ ~IsThrow(made)
         /\ Len(made.a) > 0
         /\ alerts' = addAlert(alerts, made.a[1])
         /\ uuids' = uuids + AlertUuidsDrawn(documents[i], clock)
  /\ UNCHANGED <<data, outcome, issued, calls, clock, respVars, storeVars,
                 isProcessing, timeline, home, upload, analyses, recorder>>

\* addAlerts(alerts) with the alerts generated for a stored document
AddAlerts ==
  /\ Len(alerts) < MaxAlerts
  /\ \E i \in 1..Len(documents) :
       \E made \in {generateAlerts(documents[i], uuids, clock)} :
         /\ ~IsThrow(made)
         /\ Len(made.a) > 0
         /\ alerts' = addAlerts(alerts, made.a)
         /\ uuids' = uuids + AlertUuidsDrawn(documents[i], clock)
  /\ UNCHANGED <<data, outcome, issued, calls, clock, respVars, storeVars,
                 isProcessing, timeline, home, upload, analyses, recorder>>

\* dismissAlert(id) from the alerts panel, part_005:21, on a stored alert
DismissAlert ==
  /\ \E i \in 1..Len(alerts) : alerts' = dismissAlert(alerts, alerts[i].id)
  /\ UNCHANGED <<normVars, respVars, storeVars,
                 isProcessing, timeline, home, upload, analyses, recorder>>

\* setProcessing(status)
SetProcessing ==
  /\ \E status \in BOOLEAN : isProcessing' = setProcessing(status)
  /\ UNCHANGED <<normVars, respVars, storeVars,
                 alerts, timeline, home, upload, analyses, recorder>>

NextAlertStore ==
  \/ StoreDocument
  \/ UpdateDocument
  \/ RemoveDocument
  \/ AddAlert
  \/ AddAlerts
  \/ DismissAlert
  \/ SetProcessing

SpecAlertStore == InitStore /\ [][NextAlertStore]_vars

\* a call of getTimeline(): what it returned or threw; the array of the store
\* is the one the call leaves
GetTimeline ==
  /\ \E rank \in TimelineOrders(documents) :
       \E call \in {timelineCall(documents, rank)} :
         /\ timeline' = [t |-> "call", out |-> call.out]
         /\ documents' = call.documents
  /\ UNCHANGED <<normVars, respVars, trends,
                 alerts, isProcessing, home, upload, analyses, recorder>>

\* a call of generateAlerts(document) on a stored document
GenerateAlertsOf ==
  /\ uuids < MaxUuids
  /\ \E i \in 1..Len(documents) :
       /\ outcome' = [t |-> "alerts", document |-> documents[i],
                      out |-> generateAlerts(documents[i], uuids, clock)]
       /\ uuids' = uuids + AlertUuidsDrawn(documents[i], clock)
  /\ UNCHANGED <<data, issued, calls, clock, respVars, storeVars, appVars>>

\* addAlerts(alerts) with the alerts the last call generated, part_009:109-111
AddGenerated ==
  /\ outcome.t = "alerts"
  /\ ~IsThrow(outcome.out)
  /\ Len(outcome.out.a) > 0
  /\ \A k \in 1..Len(outcome.out.a), i \in 1..Len(alerts) : alerts[i].id # outcome.out.a[k].id
  /\ alerts' = addAlerts(alerts, outcome.out.a)
  /\ UNCHANGED <<normVars, respVars, storeVars,
                 isProcessing, timeline, home, upload, analyses, recorder>>

NextViews ==
  \/ StoreDocument
  \/ GenerateAlertsOf
  \/ AddGenerated
  \/ GetTimeline
  \/ GetLabTrends

SpecViews == InitStore /\ [][NextViews]_vars

(***************************************************************************)
(* Properties of the alerts of the store.                                  *)
(***************************************************************************)
\* the stored alert that was at position i before a step that put added
\* alerts in front
Kept(i, added) == alerts'[i + added]

\* C21: alerts are only added.  A step that generates alerts for a document and
\* hands them to addAlert or addAlerts leaves more alerts than before, every
\* stored alert behind the new ones exactly as it was, and the new ones with
\* ids that differ from each other and from every stored id: the same
\* document processed twice leaves two sets of alerts.
C21_AlertsOnlyAdded ==
  [][(uuids' # uuids /\ calls' = calls) =>
       LET added == Len(alerts') - Len(alerts)
       IN /\ added > 0
          /\ \A i \in 1..Len(alerts) : Kept(i, added) = alerts[i]
          /\ \A k \in 1..added : \A i \in 1..Len(alerts) : alerts'[k].id # alerts[i].id
          /\ \A k, m \in 1..added : k # m => alerts'[k].id # alerts'[m].id]_vars

\* alerts on one lab result of one document are stored twice, under two ids,
\* beside an alert on another lab result
C21_Witness ==
  \E i, j, k \in 1..Len(alerts) :
    /\ Cardinality({alerts[i].id, alerts[j].id, alerts[k].id}) = 3
    /\ alerts[i].relatedLabResult = alerts[k].relatedLabResult
    /\ alerts[i].title = alerts[k].title
    /\ alerts[i].relatedLabResult # alerts[j].relatedLabResult

\* the fields of an alert that are fixed when it is created
Frozen(alert) ==
  [id |-> alert.id, type |-> alert.type, title |-> alert.title, message |-> alert.message,
   relatedLabResult |-> alert.relatedLabResult, createdAt |-> alert.createdAt]

\* C22: over every step of the store (addDocument, updateDocument,
\* removeDocument, addAlert, addAlerts, dismissAlert, setProcessing) every
\* stored alert stays in the store with its id, type, title, message, related
\* lab result and creation time; where a dismissed flag changes, it becomes
\* true, the alerts it changes on are exactly those of one id, and no alert is
\* added and no document changes in that step.
C22_AlertsFrozen ==
  [][LET added == Len(alerts') - Len(alerts)
         Changed == {i \in 1..Len(alerts) : Kept(i, added).dismissed # alerts[i].dismissed}
     IN /\ added >= 0
        /\ \A i \in 1..Len(alerts) : Frozen(Kept(i, added)) = Frozen(alerts[i])
        /\ Changed # {} =>
             /\ added = 0
             /\ \E c \in Changed : Changed = {i \in 1..Len(alerts) : alerts[i].id = alerts[c].id}
             /\ \A i \in Changed : alerts'[i].dismissed = TRUE
             /\ documents' = documents]_vars

\* one alert is dismissed beside an alert on the same test that is not, with a
\* document updated and another removed
C22_Witness ==
  /\ \E i, j \in 1..Len(alerts) :
       /\ alerts[i].dismissed
       /\ ~alerts[j].dismissed
       /\ alerts[i].title = alerts[j].title
  /\ Len(documents) = 1
  /\ calls = 2
  /\ documents[1].voiceNotes # <<>>
  /\ isProcessing

(***************************************************************************)
(* Properties of the derived views.                                        *)
(***************************************************************************)
\* what a call of getLabTrends returned, as the set of its trends: name, unit,
\* category, data points (as a set) and currentStatus of each; or what it threw
TrendSet(out) ==
  IF IsThrow(out) THEN out
  ELSE {[testName |-> out.a[i].testName, unit |-> out.a[i].unit,
         category |-> out.a[i].category,
         dataPoints |-> {out.a[i].dataPoints[k] : k \in 1..Len(out.a[i].dataPoints)},
         currentStatus |-> out.a[i].currentStatus] : i \in 1..Len(out.a)}

\* the stored documents have readable dates that all differ
DistinctDates(docs) ==
  /\ \A i \in 1..Len(docs) : ~IsNaN(getTime(docs[i].date))
  /\ \A i, j \in 1..Len(docs) : i # j => docs[i].date # docs[j].date

\* C23: the trends are a function of the set of stored documents.  Whatever
\* getLabTrends returned for the store, it returns the same set of trends
\* (names, units, categories, data points, currentStatus) for the same
\* documents added in any other order.
C23_TrendsOfDocumentSet ==
  trends.t = "call" =>
    \A order \in Permutations(1..Len(trends.docs)) :
      \A rank \in SortOrders(trends.docs) :
        TrendSet(getLabTrends(PermuteBy(trends.docs, order), rank)) = TrendSet(trends.out)

\* C23 where the dates of the stored documents are readable and all differ
C23_DistinctDatesOnly ==
  (trends.t = "call" /\ DistinctDates(trends.docs)) =>
    \A order \in Permutations(1..Len(trends.docs)) :
      TrendSet(getLabTrends(PermuteBy(trends.docs, order), <<>>)) = TrendSet(trends.out)

NamesAreStrings(docs) ==
  \A i \in 1..Len(docs) : \A k \in 1..Len(LabResultsOf(docs[i])) :
    LabResultsOf(docs[i])[k].testName.t = "string"

\* C25: getLabTrends never fails.  It returns the empty list for a store without
\* documents and a list of trends, throwing nothing, for every store whose
\* documents hold lab results as the normalizer returned them.
C25_TrendsNeverFail ==
  trends.t = "call" =>
    /\ ~IsThrow(trends.out)
    /\ Len(trends.docs) = 0 => trends.out = Arr(<<>>)

\* C25 where every testName is a string
C25_StringNamesOnly ==
  (trends.t = "call" /\ NamesAreStrings(trends.docs)) =>
    /\ ~IsThrow(trends.out)
    /\ Len(trends.docs) = 0 => trends.out = Arr(<<>>)

(***************************************************************************)
(* The upload wizard (components/DocumentUpload) on the page (app/page):   *)
(* processDocument runs from the click up to its first await, and from the *)
(* answer of the extraction to its end.  A component that was unmounted    *)
(* keeps its call of processDocument running; the state setters of an      *)
(* unmounted component do nothing.                                         *)
(***************************************************************************)
\* the data URL of a file, part_009:53-54
Image(k) == [t |-> "image", file |-> k]

\* the images dropped on the wizard
UploadImages == {Image(1), Image(2), Image(3), Image(4)}

\* what /api/analyze answers for the image: a document with a critical
\* result, a document with a normal result, the failure of the route, or the
\* JSON value null
AnalyzeAnswer(image) ==
  CASE image = Image(1) -> Response(200, [success |-> TRUE, data |-> OpsInput(1)])
    [] image = Image(2) -> Response(200, [success |-> TRUE,
                                   data |-> Obj([EmptyParsed EXCEPT
                                                   !.date = June,
                                                   !.labResults = Arr(<<Hdl>>)])])
    [] image = Image(3) -> Response(500, [error |-> "Processing failed"])
    [] OTHER -> Response(200, [success |-> TRUE, data |-> Null])

\* extractDocumentData, lib/medgemma.ts:18-51, on the answer of the route
extractedFrom(response, uuid0, today) ==
  IF response.status # 200 THEN Throw("Error", response.body.error)
  ELSE parseExtractionData(response.body.data, uuid0, today)

\* the identifiers the normalizer draws for the answer
ResponseUuids(response) ==
  IF response.status # 200 THEN 0 ELSE UuidsDrawn(response.body.data)

\* the component of the call is the one that is mounted
Shown(call) == upload.mounted /\ upload.instance = call.instance

\* the page shows the wizard: setCurrentView('upload'), page.tsx:107, 212, 264;
\* a new DocumentUpload is mounted
OpenUpload ==
  /\ home.currentView # "upload"
  /\ upload.instance < MaxRuns
  /\ home' = Spread(home, [currentView |-> "upload"])
  /\ upload' = Spread(NoUpload, [instance |-> upload.instance + 1, mounted |-> TRUE])
  /\ UNCHANGED <<normVars, respVars, storeVars, alerts, isProcessing, timeline,
                 analyses, recorder>>

\* onDrop and the onload of its reader, part_009:47-58
SelectImage ==
  /\ upload.mounted
  /\ upload.step = "select"
  /\ \E image \in UploadImages :
       upload' = Spread(upload, [selectedImage |-> image, step |-> "preview"])
  /\ UNCHANGED <<normVars, respVars, storeVars, alerts, isProcessing, timeline,
                 home, analyses, recorder>>

\* the button Choose Different, part_009:280-284
ChooseDifferent ==
  /\ upload.mounted
  /\ upload.step = "preview"
  /\ upload' = Spread(upload, [selectedImage |-> None, step |-> "select"])
  /\ UNCHANGED <<normVars, respVars, storeVars, alerts, isProcessing, timeline,
                 home, analyses, recorder>>

\* the button Analyze Document: processDocument up to its first await,
\* part_009:71-75
StartAnalysis ==
  /\ upload.mounted
  /\ upload.step = "preview"
  /\ upload.selectedImage # None
  /\ Len(analyses) < MaxRuns
  /\ upload' = Spread(upload, [step |-> "processing"])
  /\ isProcessing' = setProcessing(TRUE)
  /\ analyses' = Append(analyses, [instance |-> upload.instance,
                                   image |-> upload.selectedImage, pc |-> "running"])
  /\ UNCHANGED <<normVars, respVars, storeVars, alerts, timeline, home, recorder>>

\* the try block of processDocument has built doc and the alerts made,
\* part_009:107-114, for the call at position i
Succeeded(i, doc, made) ==
  /\ alerts' = IF Len(made.a) > 0 THEN addAlerts(alerts, made.a) ELSE alerts
  /\ upload' = IF Shown(analyses[i])
               THEN Spread(upload, [processedDocument |-> doc, step |-> "complete"])
               ELSE upload
  /\ analyses' = [analyses EXCEPT ![i] = Spread(analyses[i], [pc |-> "done"])]

\* the catch block of processDocument, part_009:115-117: the error is logged
Failed(i) ==
  /\ analyses' = [analyses EXCEPT ![i] = Spread(analyses[i], [pc |-> "failed"])]
  /\ UNCHANGED <<alerts, upload>>

\* processDocument from the answer of the extraction to its end,
\* part_009:84-120
FinishAnalysis ==
  /\ \E i \in 1..Len(analyses) :
       /\ analyses[i].pc = "running"
       /\ \E response \in {AnalyzeAnswer(analyses[i].image)} :
            \E drawn \in {ResponseUuids(response)},
               rec \in {extractedFrom(response, uuids, clock)} :
              IF IsReturn(rec)
              THEN \E doc \in {Document(Uuid(uuids + drawn), rec, clock)} :
                     \E made \in {generateAlerts(doc, uuids + drawn + 1, clock)} :
                       /\ uuids' = uuids + drawn + 1 + AlertUuidsDrawn(doc, clock)
                       /\ IF IsThrow(made) THEN Failed(i) ELSE Succeeded(i, doc, made)
              ELSE /\ uuids' = uuids + drawn
                   /\ Failed(i)
  /\ isProcessing' = setProcessing(FALSE)
  /\ UNCHANGED <<data, outcome, issued, calls, clock, respVars, storeVars, timeline,
                 home, recorder>>

\* the button of the last step: onComplete(processedDocument), part_009:395,
\* which is handleUploadComplete, page.tsx:59-63; the wizard is unmounted
CompleteUpload ==
  /\ upload.mounted
  /\ upload.step = "complete"
  /\ upload.processedDocument # None
  /\ documents' = addDocument(documents, upload.processedDocument)
  /\ home' = [currentView |-> "document", selectedDocument |-> upload.processedDocument]
  /\ upload' = Spread(NoUpload, [instance |-> upload.instance])
  /\ UNCHANGED <<normVars, respVars, trends, alerts, isProcessing, timeline,
                 analyses, recorder>>

\* onCancel, part_009:150 and page.tsx:227, or a button of the navigation,
\* page.tsx:107: the page shows the dashboard and the wizard is unmounted
CancelUpload ==
  /\ upload.mounted
  /\ home' = Spread(home, [currentView |-> "dashboard"])
  /\ upload' = Spread(NoUpload, [instance |-> upload.instance])
  /\ UNCHANGED <<normVars, respVars, storeVars, alerts, isProcessing, timeline,
                 analyses, recorder>>

NextUpload ==
  \/ OpenUpload
  \/ SelectImage
  \/ ChooseDifferent
  \/ StartAnalysis
  \/ FinishAnalysis
  \/ CompleteUpload
  \/ CancelUpload
  \/ RemoveDocument

SpecUpload == InitStore /\ [][NextUpload]_vars

(***************************************************************************)
(* Properties of the upload wizard.                                        *)
(***************************************************************************)
\* a call of processDocument of the mounted wizard ended in its catch block
FailedHere == \E i \in 1..Len(analyses) : analyses[i].pc = "failed" /\ Shown(analyses[i])

\* C26: a failed analysis does not leave the wizard in its processing step.
\* Once extraction or normalization has failed in processDocument, the wizard
\* that started it is in a step from which the analysis can be started again
\* (select or preview).
C26_FailureLeavesProcessing ==
  FailedHere => upload.step \in {"select", "preview"}

\* a lab result of a stored document is the one the alert is about
Owned(alert) ==
  \E d \in 1..Len(documents) : \E k \in 1..Len(LabResultsOf(documents[d])) :
    LabResultsOf(documents[d])[k] = alert.relatedLabResult

\* the wizard holds an analyzed document that is not yet added
Pending == upload.mounted /\ upload.step = "complete"

\* C27: every stored alert is about a lab result of a stored document.  Apart
\* from the moment in which the wizard shows an analyzed document that the
\* user has not yet completed, no alert is stored for a document that is not
\* in the store: not after a cancelled upload and not after removeDocument.
C27_AlertsOfStoredDocuments ==
  ~Pending => \A i \in 1..Len(alerts) : Owned(alerts[i])

\* C27 for the documents that were completed: the alerts of an upload that
\* ended with handleUploadComplete, while its document is stored
C27_CompletedAndKept ==
  \A d \in 1..Len(documents) : \A k \in 1..Len(Abnormal(documents[d])) :
    \E i \in 1..Len(alerts) : alerts[i].relatedLabResult = Abnormal(documents[d])[k]

\* a call of processDocument has not reached its finally block
InFlight == \E i \in 1..Len(analyses) : analyses[i].pc = "running"

\* C29: isProcessing tells whether an analysis is in flight.  The flag of the
\* store is true while some call of processDocument is running, an earlier
\* cancelled one having finished or not, and false when none is running, a
\* failed one included.
C29_FlagFollowsAnalyses == isProcessing <=> InFlight

(***************************************************************************)
(* The voice notes of the open document (components/DocumentDetail).  The  *)
(* component receives the document the page selected, page.tsx:252-255,    *)
(* and its handlers read the notes of that document.                       *)
(***************************************************************************)
\* createVoiceNote, part_004:291-303, with the n-th identifier
VoiceNote(n) == [id |-> Uuid(n), createdAt |-> clock]

\* handleDocumentClick(doc) on a document of the store, page.tsx:54-57
OpenDocument ==
  /\ home.currentView # "document"
  /\ \E i \in 1..Len(documents) :
       home' = [currentView |-> "document", selectedDocument |-> documents[i]]
  /\ UNCHANGED <<normVars, respVars, storeVars, alerts, isProcessing, timeline,
                 upload, analyses, recorder>>

\* onBack, page.tsx:254
CloseDocument ==
  /\ home.currentView = "document"
  /\ home' = Spread(home, [currentView |-> "dashboard"])
  /\ UNCHANGED <<normVars, respVars, storeVars, alerts, isProcessing, timeline,
                 upload, analyses, recorder>>

\* handleSaveVoiceNote(voiceNote), part_006:106-111, with a new note
SaveVoiceNote ==
  /\ home.currentView = "document"
  /\ uuids < MaxUuids
  /\ \E document \in {home.selectedDocument} :
       documents' = updateDocument(documents, document.id,
                                   [voiceNotes |-> Append(document.voiceNotes,
                                                          VoiceNote(uuids))],
                                   clock)
  /\ uuids' = uuids + 1
  /\ UNCHANGED <<data, outcome, issued, calls, clock, respVars, trends, appVars>>

\* handleDeleteVoiceNote(noteId), part_006:113-117, on a note the component
\* lists, part_006:445-470
DeleteVoiceNote ==
  /\ home.currentView = "document"
  /\ \E document \in {home.selectedDocument} :
       \E k \in 1..Len(document.voiceNotes) :
         LET Other(n) == n.id # document.voiceNotes[k].id
         IN documents' = updateDocument(documents, document.id,
                                        [voiceNotes |-> SelectSeq(document.voiceNotes, Other)],
                                        clock)
  /\ UNCHANGED <<normVars, respVars, trends, appVars>>

NextNotes ==
  \/ StoreDocument
  \/ OpenDocument
  \/ CloseDocument
  \/ SaveVoiceNote
  \/ DeleteVoiceNote

SpecNotes == InitStore /\ [][NextNotes]_vars

(***************************************************************************)
(* Properties of the voice notes.                                          *)
(***************************************************************************)
\* the voice notes of the stored document with the id
NotesOf(docs, id) ==
  UNION {{docs[i].voiceNotes[k] : k \in 1..Len(docs[i].voiceNotes)} :
           i \in {j \in 1..Len(docs) : docs[j].id = id}}

\* C28: voice notes accumulate.  A save on the open document leaves every note
\* the stored document had and one more; a delete takes at most one note from
\* the stored document and adds none.
C28_NotesAccumulate ==
  [][(home.currentView = "document" /\ home' = home /\ calls' = calls
        /\ documents' # documents) =>
       LET before == NotesOf(documents, home.selectedDocument.id)
           after == NotesOf(documents', home.selectedDocument.id)
       IN IF uuids' # uuids
          THEN /\ before \subseteq after
               /\ Cardinality(after) = Cardinality(before) + 1
          ELSE /\ after \subseteq before
               /\ Cardinality(before \ after) <= 1]_vars

(***************************************************************************)
(* The AudioRecorder (lib/medasr, part_004:18-165) as VoiceRecorder drives *)
(* it.  Time is counted in periods of its timer (100 ms), and so are the   *)
(* durations: a duration of the source is the tenth of one of the model.   *)
(***************************************************************************)
\* how many timer periods pass
MaxTicks == MaxRuns + MaxDocs

\* the recorder before startRecording, part_004:19-25, at a time that is not 0
IdleRecorder ==
  [made |-> TRUE, state |-> "inactive", startTime |-> 0, pausedDuration |-> 0,
   timer |-> FALSE, now |-> 1, emitted |-> None]

\* getCurrentDuration(), part_004:125-128
getCurrentDuration(r) == IF r.startTime = 0 THEN 0 ELSE r.now - r.startTime

\* emitState(), part_004:147-156: the state handed to onStateChange
emitState(r) ==
  Spread(r, [emitted |-> [isRecording |-> r.state = "recording",
                          isPaused |-> r.state = "paused",
                          duration |-> getCurrentDuration(r)]])

\* a mutant of emitState: a paused recorder reports the duration it stored
emitStateHeld(r) ==
  Spread(r, [emitted |-> [isRecording |-> r.state = "recording",
                          isPaused |-> r.state = "paused",
                          duration |-> IF r.state = "paused" THEN r.pausedDuration
                                       ELSE getCurrentDuration(r)]])

\* time passes
Tick ==
  /\ recorder.now < MaxTicks
  /\ recorder' = Spread(recorder, [now |-> recorder.now + 1])
  /\ UNCHANGED <<normVars, respVars, storeVars, alerts, isProcessing, timeline,
                 home, upload, analyses>>

\* startRecording(), part_004:31-63, on a new recorder, VoiceRecorder.tsx:63-67
StartRecording ==
  /\ recorder.state = "inactive"
  /\ recorder' = emitState(Spread(recorder, [state |-> "recording",
                                             startTime |-> recorder.now,
                                             pausedDuration |-> 0, timer |-> TRUE]))
  /\ UNCHANGED <<normVars, respVars, storeVars, alerts, isProcessing, timeline,
                 home, upload, analyses>>

\* the callback of setInterval, part_004:59-61
TimerFires ==
  /\ recorder.timer
  /\ recorder' = emitState(recorder)
  /\ UNCHANGED <<normVars, respVars, storeVars, alerts, isProcessing, timeline,
                 home, upload, analyses>>

\* pauseRecording(), part_004:70-76
PauseRecording ==
  /\ recorder.state = "recording"
  /\ recorder' = emitState(Spread(recorder, [state |-> "paused",
                                             pausedDuration |-> getCurrentDuration(recorder)]))
  /\ UNCHANGED <<normVars, respVars, storeVars, alerts, isProcessing, timeline,
                 home, upload, analyses>>

\* resumeRecording(), part_004:78-84
ResumeRecording ==
  /\ recorder.state = "paused"
  /\ recorder' = emitState(Spread(recorder, [state |-> "recording",
                                             startTime |-> recorder.now
                                                             - recorder.pausedDuration]))
  /\ UNCHANGED <<normVars, respVars, storeVars, alerts, isProcessing, timeline,
                 home, upload, analyses>>

\* stopRecording() and the onstop callback, or cancelRecording(): cleanup(),
\* part_004:86-123
StopRecording ==
  /\ recorder.state # "inactive"
  /\ recorder' = emitState(Spread(recorder, [state |-> "inactive", timer |-> FALSE]))
  /\ UNCHANGED <<normVars, respVars, storeVars, alerts, isProcessing, timeline,
                 home, upload, analyses>>

InitRecorder ==
  /\ NoResponse
  /\ NoStore
  /\ alerts = <<>>
  /\ isProcessing = FALSE
  /\ timeline = None
  /\ home = AtDashboard
  /\ upload = NoUpload
  /\ analyses = <<>>
  /\ recorder = IdleRecorder
  /\ data = Undef
  /\ clock = Str(<<"2", "0", "2", "6", "-", "0", "1", "-", "0", "5">>)
  /\ outcome = None
  /\ uuids = 0
  /\ issued = <<>>
  /\ calls = 0

NextRecorder ==
  \/ Tick
  \/ StartRecording
  \/ TimerFires
  \/ PauseRecording
  \/ ResumeRecording
  \/ StopRecording

SpecRecorder == InitRecorder /\ [][NextRecorder]_vars

(***************************************************************************)
(* Properties of the recorder                                              *)
(***************************************************************************)
\* C30: while the recording is paused the duration it reports is the one reached
\* when pauseRecording() was called
C30_PausedDurationHeld ==
  recorder.state = "paused" => recorder.emitted.duration = recorder.pausedDuration

\* after resumeRecording() the duration continues from the one stored at the pause
C30_ResumeContinues ==
  [][recorder.state = "paused" /\ recorder'.state = "recording" =>
       recorder'.emitted.duration = recorder.pausedDuration]_vars

\* a recording resumed after time went by while it was paused
C30_ResumeWitness ==
  /\ recorder.state = "recording"
  /\ recorder.pausedDuration = 1
  /\ recorder.startTime = 3
  /\ recorder.emitted.duration = 1
====
